---- MODULE Spec2Model ----
(***************************************************************************)
(* EPG collector of mirakc (src/src/epg.rs): the Epg actor (periodic pass, *)
(* daily guard, backoff), the schedule index with its tables, segments and *)
(* sections, and the overnight-event sidecar.                              *)
(*                                                                         *)
(* Time is in seconds since a civil midnight (JST, no daylight saving).    *)
(* Option<T> is a sequence of length 0 (None) or 1 (Some).                 *)
(* A u64 schedule id is its four 16-bit limbs, most significant first.     *)
(***************************************************************************)
EXTENDS Integers, Sequences, FiniteSets, TLC

VARIABLES
    config,        \* Config.channels: every configured channel, with its disabled flag
    channels,      \* Epg.channels
    schedules,     \* Epg.schedules
    max_elapsed,   \* Epg.max_elapsed
    clock,         \* the wall clock, Jst::now()
    timers,        \* pending ctx.run_later timers: their due times
    pc,            \* position of the actor in its pass
    run_now,       \* `now` captured by Epg::run
    todo,          \* channels (scan) or networks (collect) left in the stream
    cur,           \* the stream item being processed
    services,      \* the fold accumulator of scan_services
    result,        \* the Result the future chain carries: "ok" or "err"
    tuners,        \* tuner outputs currently held by the actor
    cache_file,    \* <cache_dir>/schedules.json
    published,     \* UpdateEpgMessages sent to the resource manager
    log,           \* history: the steps of the current run invocation
    runs,          \* history: number of invocations of Epg::run
    ticks,         \* history: number of clock advances so far
    hist           \* history: the last store operation, its inputs and its pre-state

vars == <<config, channels, schedules, max_elapsed, clock, timers, pc, run_now,
          todo, cur, services, result, tuners, cache_file, published, log,
          runs, ticks, hist>>

coordVars == <<config, channels, max_elapsed, timers, run_now, todo, cur,
               services, result, tuners, cache_file, published, log, runs, ticks>>

----------------------------------------------------------------------------
(* Program constants *)

Day == 86400
TableIdBase == 80
NumTables == 32
NumSegments == 32
NumSections == 8
U8Max == 255
U16Max == 65535

None == <<>>
Some(x) == <<x>>

Max(a, b) == IF a >= b THEN a ELSE b

\* An entry of the history of calls: the step, the channel it is about (or
\* ""), the schedule id it is about (or <<>>).
LogEntry(step, name, id) == [step |-> step, name |-> name, id |-> id]

LogIds(step, ids) == [n \in 1 .. Len(ids) |-> LogEntry(step, "", ids[n])]

\* timestamp.date().and_hms(0, 0, 0)
midnight_of(t) == (t \div Day) * Day

----------------------------------------------------------------------------
(* EpgScheduleId *)

\* A u64 is the sequence of its four 16-bit limbs, most significant first
\* (the integers of the checker have 32 bits).  `x as u64` for a u16, shifts
\* by a multiple of 16 bits, the bitwise operators, and `v as u16`.
U64_from(x) == <<0, 0, 0, x>>

U64_shl(v, bits) ==
    LET k == bits \div 16
    IN  [i \in 1 .. 4 |-> IF i + k <= 4 THEN v[i + k] ELSE 0]

U64_shr(v, bits) ==
    LET k == bits \div 16
    IN  [i \in 1 .. 4 |-> IF i - k >= 1 THEN v[i - k] ELSE 0]

RECURSIVE U16_or(_, _)
U16_or(a, b) ==
    IF a = 0 THEN b
    ELSE IF b = 0 THEN a
    ELSE (IF a % 2 = 1 \/ b % 2 = 1 THEN 1 ELSE 0) + 2 * U16_or(a \div 2, b \div 2)

RECURSIVE U16_and(_, _)
U16_and(a, b) ==
    IF a = 0 \/ b = 0 THEN 0
    ELSE (IF a % 2 = 1 /\ b % 2 = 1 THEN 1 ELSE 0) + 2 * U16_and(a \div 2, b \div 2)

U64_or(v, w) == [i \in 1 .. 4 |-> U16_or(v[i], w[i])]

U64_and(v, w) == [i \in 1 .. 4 |-> U16_and(v[i], w[i])]

U64_as_u16(v) == v[4]

\* Mutant: the transport stream id is not shifted.
EpgScheduleId_from_overlapping(nid, tsid, sid) ==
    U64_or(U64_or(U64_shl(U64_from(nid), 32), U64_from(tsid)), U64_from(sid))

\* (triple.0 as u64) << 32 | (triple.1 as u64) << 16 | (triple.2 as u64)
EpgScheduleId_from(nid, tsid, sid) ==
    U64_or(U64_or(U64_shl(U64_from(nid), 32), U64_shl(U64_from(tsid), 16)),
           U64_from(sid))

EpgScheduleId_nid(id) == U64_as_u16(U64_and(U64_shr(id, 32), U64_from(U16Max)))

EpgScheduleId_tsid(id) == U64_as_u16(U64_and(U64_shr(id, 16), U64_from(U16Max)))

EpgScheduleId_sid(id) == U64_as_u16(U64_and(id, U64_from(U16Max)))

----------------------------------------------------------------------------
(* EitSection, EitEvent *)

table_index(section) == section.table_id - TableIdBase

\* Mutant: the segment index is taken modulo the number of segments.
segment_index_wrapping(section) == section.section_number % NumSegments

segment_index(section) == section.section_number \div NumSections

section_index(section) == section.section_number % NumSections

last_section_index(section) == section.segment_last_section_number % NumSections

\* Mutant: the schedule id is built without the section's network id.
epg_schedule_id_without_nid(section) ==
    EpgScheduleId_from(1, section.transport_stream_id, section.service_id)

epg_schedule_id(section) ==
    EpgScheduleId_from(section.original_network_id,
                       section.transport_stream_id,
                       section.service_id)

end_time(event) == event.start_time + event.duration

\* Mutant: an event that ends at midnight counts as overnight.
is_overnight_event_inclusive(event, midnight) ==
    event.start_time < midnight /\ end_time(event) >= midnight

is_overnight_event(event, midnight) ==
    event.start_time < midnight /\ end_time(event) > midnight

----------------------------------------------------------------------------
(* EpgSection *)

EpgSection_from(section) ==
    [version |-> section.version_number, events |-> section.events]

\* `events` is the accumulator the code threads through the walk.  The test
\* `events = events` only makes the evaluation eager, level by level, as the
\* code's is: it is always true.
RECURSIVE EpgSection_collect_from(_, _, _, _)
EpgSection_collect_from(section, midnight, events, n) ==
    IF n > Len(section.events) \/ events # events THEN events
    ELSE LET event == section.events[n]
         IN  EpgSection_collect_from(
                 section, midnight,
                 IF is_overnight_event(event, midnight)
                     THEN Append(events, event) ELSE events,
                 n + 1)

EpgSection_collect_overnight_events(section, midnight, events) ==
    EpgSection_collect_from(section, midnight, events, 1)

----------------------------------------------------------------------------
(* EpgSegment *)

EpgSegment_default == [sections |-> [j \in 0 .. NumSections - 1 |-> None]]

\* Mutant: a stored section is replaced only by a newer version.
EpgSegment_update_newer_only(segment, section) ==
    LET n == last_section_index(section) + 1
        i == section_index(section)
        cleared == [j \in 0 .. NumSections - 1 |->
                       IF j >= n THEN None ELSE segment.sections[j]]
    IN  [sections |->
            IF cleared[i] # None /\ cleared[i][1].version >= section.version_number
                THEN cleared
                ELSE [cleared EXCEPT ![i] = Some(EpgSection_from(section))]]

EpgSegment_update(segment, section) ==
    LET n == last_section_index(section) + 1
        i == section_index(section)
        cleared == [j \in 0 .. NumSections - 1 |->
                       IF j >= n THEN None ELSE segment.sections[j]]
    IN  [sections |-> [cleared EXCEPT ![i] = Some(EpgSection_from(section))]]

RECURSIVE EpgSegment_collect_from(_, _, _, _)
EpgSegment_collect_from(segment, midnight, events, j) ==
    IF j >= NumSections \/ events # events THEN events
    ELSE EpgSegment_collect_from(
             segment, midnight,
             IF segment.sections[j] # None
                 THEN EpgSection_collect_overnight_events(
                          segment.sections[j][1], midnight, events)
                 ELSE events,
             j + 1)

EpgSegment_collect_overnight_events(segment, midnight, events) ==
    EpgSegment_collect_from(segment, midnight, events, 0)

----------------------------------------------------------------------------
(* EpgTable *)

EpgTable_default == [segments |-> [s \in 0 .. NumSegments - 1 |-> EpgSegment_default]]

EpgTable_update(table, section) ==
    LET i == segment_index(section)
    IN  [segments |-> [table.segments EXCEPT
                          ![i] = EpgSegment_update(table.segments[i], section)]]

RECURSIVE EpgTable_collect_from(_, _, _, _)
EpgTable_collect_from(table, midnight, events, s) ==
    IF s >= NumSegments \/ events # events THEN events
    ELSE EpgTable_collect_from(
             table, midnight,
             EpgSegment_collect_overnight_events(table.segments[s], midnight, events),
             s + 1)

EpgTable_collect_overnight_events(table, midnight, events) ==
    EpgTable_collect_from(table, midnight, events, 0)

----------------------------------------------------------------------------
(* EpgSchedule *)

\* Mutant: a new schedule starts with its first table allocated.
EpgSchedule_new_with_table(service, now) ==
    [service |-> service,
     tables |-> [t \in 0 .. NumTables - 1 |->
                    IF t = 0 THEN Some(EpgTable_default) ELSE None],
     overnight_events |-> <<>>,
     updated_at |-> now]

EpgSchedule_new(service, now) ==
    [service |-> service,
     tables |-> [t \in 0 .. NumTables - 1 |-> None],
     overnight_events |-> <<>>,
     updated_at |-> now]

\* self.tables[i] panics unless 0 <= i < 32 (a table_id below 0x50 overflows
\* the subtraction in a debug build and wraps to a huge index in a release
\* build: a panic in both).
EpgSchedule_update_panics(section) ==
    table_index(section) < 0 \/ table_index(section) >= NumTables

\* Mutant: the addressed table is allocated anew on every update.
EpgSchedule_update_resetting_table(sched, section) ==
    LET i == table_index(section)
    IN  [sched EXCEPT !.tables[i] = Some(EpgTable_update(EpgTable_default, section))]

EpgSchedule_update(sched, section) ==
    LET i == table_index(section)
        table == IF sched.tables[i] = None THEN EpgTable_default
                 ELSE sched.tables[i][1]
    IN  [sched EXCEPT !.tables[i] = Some(EpgTable_update(table, section))]

RECURSIVE EpgSchedule_collect_from(_, _, _, _)
EpgSchedule_collect_from(sched, midnight, events, t) ==
    IF t >= NumTables \/ events # events THEN events
    ELSE EpgSchedule_collect_from(
             sched, midnight,
             IF sched.tables[t] # None
                 THEN EpgTable_collect_overnight_events(
                          sched.tables[t][1], midnight, events)
                 ELSE events,
             t + 1)

\* Mutant: the walk starts from the old sidecar instead of a fresh list.
save_overnight_events_appending(sched, midnight) ==
    [sched EXCEPT !.overnight_events =
        EpgSchedule_collect_from(sched, midnight, sched.overnight_events, 0)]

save_overnight_events(sched, midnight) ==
    [sched EXCEPT !.overnight_events =
        EpgSchedule_collect_from(sched, midnight, <<>>, 0)]

----------------------------------------------------------------------------
(* ProgramModel and the collect_epg_programs walk *)

\* ProgramModel::make_id: the program key of (event id, service id, network id).
ProgramModel_make_id(eid, sid, nid) == <<nid, sid, eid>>

\* ProgramModel::new: a program that carries its ids and nothing else yet.
ProgramModel_new(eid, sid, nid) ==
    [event_id |-> eid, service_id |-> sid, network_id |-> nid,
     start_at |-> 0, duration |-> 0, is_free |-> FALSE]

\* ProgramModel::update (the events of the model carry no descriptors).
ProgramModel_update(program, event) ==
    [program EXCEPT !.start_at = event.start_time,
                    !.duration = event.duration,
                    !.is_free = ~event.scrambled]

\* programs.entry(make_id(..)).or_insert(new(..)).update(event)
collect_epg_program(programs, sched_id, event) ==
    LET sid == EpgScheduleId_sid(sched_id)
        nid == EpgScheduleId_nid(sched_id)
        id == ProgramModel_make_id(event.event_id, sid, nid)
        program == IF id \in DOMAIN programs THEN programs[id]
                   ELSE ProgramModel_new(event.event_id, sid, nid)
    IN  [x \in (DOMAIN programs) \cup {id} |->
            IF x = id THEN ProgramModel_update(program, event) ELSE programs[x]]

\* The `for event in ...events.iter()` loops of collect_epg_programs.
RECURSIVE collect_epg_programs_of_events(_, _, _, _)
collect_epg_programs_of_events(events, sched_id, programs, n) ==
    IF n > Len(events) \/ programs # programs THEN programs
    ELSE collect_epg_programs_of_events(
             events, sched_id, collect_epg_program(programs, sched_id, events[n]),
             n + 1)

EpgSection_collect_epg_programs(section, sched_id, programs) ==
    collect_epg_programs_of_events(section.events, sched_id, programs, 1)

RECURSIVE EpgSegment_collect_epg_programs_from(_, _, _, _)
EpgSegment_collect_epg_programs_from(segment, sched_id, programs, j) ==
    IF j >= NumSections \/ programs # programs THEN programs
    ELSE EpgSegment_collect_epg_programs_from(
             segment, sched_id,
             IF segment.sections[j] # None
                 THEN EpgSection_collect_epg_programs(
                          segment.sections[j][1], sched_id, programs)
                 ELSE programs,
             j + 1)

EpgSegment_collect_epg_programs(segment, sched_id, programs) ==
    EpgSegment_collect_epg_programs_from(segment, sched_id, programs, 0)

RECURSIVE EpgTable_collect_epg_programs_from(_, _, _, _)
EpgTable_collect_epg_programs_from(table, sched_id, programs, s) ==
    IF s >= NumSegments \/ programs # programs THEN programs
    ELSE EpgTable_collect_epg_programs_from(
             table, sched_id,
             EpgSegment_collect_epg_programs(table.segments[s], sched_id, programs),
             s + 1)

EpgTable_collect_epg_programs(table, sched_id, programs) ==
    EpgTable_collect_epg_programs_from(table, sched_id, programs, 0)

RECURSIVE EpgSchedule_collect_epg_programs_from(_, _, _, _)
EpgSchedule_collect_epg_programs_from(sched, sched_id, programs, t) ==
    IF t >= NumTables \/ programs # programs THEN programs
    ELSE EpgSchedule_collect_epg_programs_from(
             sched, sched_id,
             IF sched.tables[t] # None
                 THEN EpgTable_collect_epg_programs(sched.tables[t][1], sched_id, programs)
                 ELSE programs,
             t + 1)

\* Mutant: the tables are folded first and the overnight events last.
EpgSchedule_collect_epg_programs_tables_first(sched, sched_id, programs) ==
    collect_epg_programs_of_events(
        sched.overnight_events, sched_id,
        EpgSchedule_collect_epg_programs_from(sched, sched_id, programs, 0), 1)

\* EpgSchedule::collect_epg_programs
EpgSchedule_collect_epg_programs(sched, sched_id, programs) ==
    EpgSchedule_collect_epg_programs_from(
        sched, sched_id,
        collect_epg_programs_of_events(sched.overnight_events, sched_id, programs, 1),
        0)

----------------------------------------------------------------------------
(* Epg: schedule preparation and section routing *)

\* serde_json::from_str::<EitSection>: a line is a JSON object with integer
\* fields, or text that is no JSON object.  Parsing fails on garbage and on a
\* number that does not fit the field's type.
parse_EitSection(line) ==
    IF line.kind # "json" THEN None
    ELSE IF /\ line.original_network_id \in 0 .. U16Max
            /\ line.transport_stream_id \in 0 .. U16Max
            /\ line.service_id \in 0 .. U16Max
            /\ line.table_id \in 0 .. U16Max
            /\ line.section_number \in 0 .. U8Max
            /\ line.last_section_number \in 0 .. U8Max
            /\ line.segment_last_section_number \in 0 .. U8Max
            /\ line.version_number \in 0 .. U8Max
            /\ \A n \in 1 .. Len(line.events) : line.events[n].event_id \in 0 .. U16Max
         THEN Some([original_network_id |-> line.original_network_id,
                    transport_stream_id |-> line.transport_stream_id,
                    service_id |-> line.service_id,
                    table_id |-> line.table_id,
                    section_number |-> line.section_number,
                    last_section_number |-> line.last_section_number,
                    segment_last_section_number |-> line.segment_last_section_number,
                    version_number |-> line.version_number,
                    events |-> line.events])
         ELSE None

\* Mutant: a schedule that needs no overnight save is replaced by a fresh one.
prepare_service_fresh_otherwise(st, service, midnight, timestamp, now) ==
    LET id == EpgScheduleId_from(service.nid, service.tsid, service.sid)
        exists == id \in DOMAIN st.schedules
        do_save == exists /\ st.schedules[id].updated_at < midnight
    IN  [schedules |-> IF do_save
                          THEN [st.schedules EXCEPT ![id] =
                                   [save_overnight_events(@, midnight)
                                       EXCEPT !.updated_at = timestamp]]
                          ELSE [x \in (DOMAIN st.schedules) \cup {id} |->
                                   IF x = id THEN EpgSchedule_new(service, now)
                                   ELSE st.schedules[x]],
         unused_ids |-> st.unused_ids \ {id},
         saved |-> IF do_save THEN Append(st.saved, id) ELSE st.saved]

\* Mutant: every schedule that exists gets an overnight save.
prepare_service_saving_always(st, service, midnight, timestamp, now) ==
    LET id == EpgScheduleId_from(service.nid, service.tsid, service.sid)
        exists == id \in DOMAIN st.schedules
    IN  [schedules |-> IF exists
                          THEN [st.schedules EXCEPT ![id] =
                                   [save_overnight_events(@, midnight)
                                       EXCEPT !.updated_at = timestamp]]
                          ELSE st.schedules @@ (id :> EpgSchedule_new(service, now)),
         unused_ids |-> st.unused_ids \ {id},
         saved |-> IF exists THEN Append(st.saved, id) ELSE st.saved]

\* Mutant: a schedule that needs no overnight save loses its overnight events.
prepare_service_clearing_overnight(st, service, midnight, timestamp, now) ==
    LET id == EpgScheduleId_from(service.nid, service.tsid, service.sid)
        exists == id \in DOMAIN st.schedules
        do_save == exists /\ st.schedules[id].updated_at < midnight
        modified == IF do_save
                        THEN [save_overnight_events(st.schedules[id], midnight)
                                 EXCEPT !.updated_at = timestamp]
                        ELSE [st.schedules[id] EXCEPT !.updated_at = timestamp,
                                                      !.overnight_events = <<>>]
    IN  [schedules |-> IF exists
                          THEN [st.schedules EXCEPT ![id] = modified]
                          ELSE st.schedules @@ (id :> EpgSchedule_new(service, now)),
         unused_ids |-> st.unused_ids \ {id},
         saved |-> IF do_save THEN Append(st.saved, id) ELSE st.saved]

\* Mutant: a schedule that exists takes the service record just observed.
prepare_service_refreshing_service(st, service, midnight, timestamp, now) ==
    LET id == EpgScheduleId_from(service.nid, service.tsid, service.sid)
        exists == id \in DOMAIN st.schedules
        do_save == exists /\ st.schedules[id].updated_at < midnight
        modified == [(IF do_save
                          THEN save_overnight_events(st.schedules[id], midnight)
                          ELSE st.schedules[id])
                        EXCEPT !.updated_at = timestamp, !.service = service]
    IN  [schedules |-> IF exists
                          THEN [st.schedules EXCEPT ![id] = modified]
                          ELSE st.schedules @@ (id :> EpgSchedule_new(service, now)),
         unused_ids |-> st.unused_ids \ {id},
         saved |-> IF do_save THEN Append(st.saved, id) ELSE st.saved]

\* The body of the `for service in services` loop of prepare_schedules.
\* st.saved records, in call order, the ids save_overnight_events ran on.
prepare_service(st, service, midnight, timestamp, now) ==
    LET id == EpgScheduleId_from(service.nid, service.tsid, service.sid)
        exists == id \in DOMAIN st.schedules
        do_save == exists /\ st.schedules[id].updated_at < midnight
        modified == [(IF do_save
                          THEN save_overnight_events(st.schedules[id], midnight)
                          ELSE st.schedules[id])
                        EXCEPT !.updated_at = timestamp]
    IN  [schedules |-> IF exists
                          THEN [st.schedules EXCEPT ![id] = modified]
                          ELSE st.schedules @@ (id :> EpgSchedule_new(service, now)),
         unused_ids |-> st.unused_ids \ {id},
         saved |-> IF do_save THEN Append(st.saved, id) ELSE st.saved]

RECURSIVE prepare_schedules_from(_, _, _, _, _, _)
prepare_schedules_from(st, servs, midnight, timestamp, now, n) ==
    IF n > Len(servs) THEN st
    ELSE prepare_schedules_from(
             prepare_service(st, servs[n], midnight, timestamp, now),
             servs, midnight, timestamp, now, n + 1)

\* Mutant: the unused schedules are not removed.
prepare_schedules_keeping_unused(scheds, servs, timestamp, now) ==
    LET st == prepare_schedules_from(
                  [schedules |-> scheds, unused_ids |-> DOMAIN scheds, saved |-> <<>>],
                  servs, midnight_of(timestamp), timestamp, now, 1)
    IN  [schedules |-> st.schedules, saved |-> st.saved]

\* Epg::prepare_schedules(services, timestamp); `now` is the Jst::now() that
\* EpgSchedule::new reads.  Gives the new index and the save calls made.
prepare_schedules(scheds, servs, timestamp, now) ==
    LET midnight == midnight_of(timestamp)
        st == prepare_schedules_from(
                  [schedules |-> scheds, unused_ids |-> DOMAIN scheds, saved |-> <<>>],
                  servs, midnight, timestamp, now, 1)
    IN  [schedules |-> [id \in (DOMAIN st.schedules) \ st.unused_ids |->
                           st.schedules[id]],
         saved |-> st.saved]

\* Mutant: a line that does not parse is skipped.
RECURSIVE update_tables_from_skipping(_, _, _)
update_tables_from_skipping(st, lines, n) ==
    IF n > Len(lines) THEN [st EXCEPT !.result = "ok"]
    ELSE LET parsed == parse_EitSection(lines[n])
         IN  IF parsed = None THEN update_tables_from_skipping(st, lines, n + 1)
             ELSE LET section == parsed[1]
                      sched_id == epg_schedule_id(section)
                  IN  IF sched_id \notin DOMAIN st.schedules
                          THEN update_tables_from_skipping(st, lines, n + 1)
                      ELSE IF EpgSchedule_update_panics(section)
                          THEN [st EXCEPT !.result = "panic"]
                      ELSE update_tables_from_skipping(
                               [st EXCEPT
                                   !.schedules[sched_id] =
                                       EpgSchedule_update(@, section),
                                   !.calls = Append(@, LogEntry("write", "", sched_id))],
                               lines, n + 1)

\* The `while reader.read_line(...)` loop of update_tables.  st.result is
\* "ok" at the end of the stream, "err" on a line that does not parse, and
\* "panic" when EpgSchedule::update indexes outside its table array.
\* st.calls records, in order, the EpgSchedule::update calls made.
RECURSIVE update_tables_from(_, _, _)
update_tables_from(st, lines, n) ==
    IF n > Len(lines) THEN [st EXCEPT !.result = "ok"]
    ELSE LET parsed == parse_EitSection(lines[n])
         IN  IF parsed = None THEN [st EXCEPT !.result = "err"]
             ELSE LET section == parsed[1]
                      sched_id == epg_schedule_id(section)
                  IN  IF sched_id \notin DOMAIN st.schedules
                          THEN update_tables_from(st, lines, n + 1)
                      ELSE IF EpgSchedule_update_panics(section)
                          THEN [st EXCEPT !.result = "panic"]
                      ELSE update_tables_from(
                               [st EXCEPT
                                   !.schedules[sched_id] =
                                       EpgSchedule_update(@, section),
                                   !.calls = Append(@, LogEntry("write", "", sched_id))],
                               lines, n + 1)

\* Mutant: every written schedule gets an overnight save after its writes.
update_tables_resaving(scheds, lines) ==
    LET r == update_tables_from([schedules |-> scheds, result |-> "ok",
                                 calls |-> <<>>], lines, 1)
    IN  [r EXCEPT
            !.schedules = [id \in DOMAIN r.schedules |->
                              IF \E n \in 1 .. Len(r.calls) : r.calls[n].id = id
                                  THEN save_overnight_events(
                                           r.schedules[id],
                                           midnight_of(r.schedules[id].updated_at))
                                  ELSE r.schedules[id]],
            !.calls = r.calls \o [n \in 1 .. Len(r.calls) |->
                                     LogEntry("save_overnight", "", r.calls[n].id)]]

update_tables(scheds, lines) ==
    update_tables_from([schedules |-> scheds, result |-> "ok", calls |-> <<>>],
                       lines, 1)

----------------------------------------------------------------------------
(* Epg: timing, channel lists, cache and publication *)

PostponeMargin == 10
EstimateMargin == 30
DefaultEstimate == 3600
SuccessDelay == 900
FailureDelay == 300

estimate_time(max) ==
    IF max # None THEN max[1] + EstimateMargin ELSE DefaultEstimate

\* Mutant: every successful pass records its elapsed time.
update_max_elapsed_always(max, elapsed) == Some(elapsed)

update_max_elapsed(max, elapsed) ==
    LET do_update == ~(max # None /\ elapsed <= max[1])
    IN  IF do_update THEN Some(elapsed) ELSE max

\* now.date().succ().and_hms(0, 0, 0) - now
remaining_until_midnight(now) == (midnight_of(now) + Day) - now

EpgChannel_from(ch) ==
    [name |-> ch.name, channel_type |-> ch.channel_type, channel |-> ch.channel,
     excluded_services |-> ch.excluded_services]

\* Mutant: the disabled channels are kept.
Epg_new_channels_unfiltered(cfg) == cfg

\* Epg::new: config.channels.iter().filter(|config| !config.disabled)
Epg_new_channels(cfg) == SelectSeq(cfg, LAMBDA ch : ~ch.disabled)

collect_channels_for_scanning_services(chs) ==
    [n \in 1 .. Len(chs) |-> EpgChannel_from(chs[n])]

EpgService_from(ch, sv) ==
    [nid |-> sv.nid, tsid |-> sv.tsid, sid |-> sv.sid,
     service_type |-> sv.service_type, logo_id |-> sv.logo_id,
     remote_control_key_id |-> sv.remote_control_key_id, name |-> sv.name,
     channel |-> ch]

EpgService_schedule_id(sv) == EpgScheduleId_from(sv.nid, sv.tsid, sv.sid)

\* serde_json::from_reader::<_, Vec<TsService>>: the helper's output is a
\* JSON array of services, or it is not.
parse_TsServices(output) ==
    IF output.kind = "json" THEN Some(output.services) ELSE None

\* The Ok arm of the parse in scan_services: one EpgService per TsService.
scan_epg_services(ch, tss) == [n \in 1 .. Len(tss) |-> EpgService_from(ch, tss[n])]

\* Mutant: the channel of a network keeps its own excluded services only.
RECURSIVE collect_channels_from_unmerged(_, _, _)
collect_channels_from_unmerged(map, servs, n) ==
    IF n > Len(servs) THEN map
    ELSE LET sv == servs[n]
         IN  collect_channels_from_unmerged(
                 IF sv.nid \in DOMAIN map THEN map
                 ELSE map @@ (sv.nid :> sv.channel),
                 servs, n + 1)

RECURSIVE collect_channels_from(_, _, _)
collect_channels_from(map, servs, n) ==
    IF n > Len(servs) THEN map
    ELSE LET sv == servs[n]
         IN  collect_channels_from(
                 IF sv.nid \in DOMAIN map
                     THEN [map EXCEPT ![sv.nid].excluded_services =
                              @ \o sv.channel.excluded_services]
                     ELSE map @@ (sv.nid :> sv.channel),
                 servs, n + 1)

\* The HashMap<u16, EpgChannel> of networks to collect.
collect_channels_for_collecting_programs(servs) ==
    collect_channels_from(<<>>, servs, 1)

\* The orders in which a HashMap may be iterated: every order of its entries.
IterationOrders(map) ==
    LET n == Cardinality(DOMAIN map)
    IN  {[k \in 1 .. n |-> <<order[k], map[order[k]]>>] :
            order \in {o \in [1 .. n -> DOMAIN map] :
                          \A a, b \in 1 .. n : a # b => o[a] # o[b]}}

\* collect_epg_service for every schedule: the ServiceModels of the message
\* (their order is the HashMap's; the message is modelled by their set).
collect_epg_services(scheds) ==
    {[service_id |-> scheds[id].service.sid,
      network_id |-> scheds[id].service.nid,
      service_type |-> scheds[id].service.service_type,
      logo_id |-> scheds[id].service.logo_id,
      remote_control_key_id |-> scheds[id].service.remote_control_key_id,
      name |-> scheds[id].service.name,
      channel |-> [channel_type |-> scheds[id].service.channel.channel_type,
                   channel |-> scheds[id].service.channel.channel],
      has_logo_data |-> FALSE] : id \in DOMAIN scheds}

\* Epg::collect_epg_programs, with the schedules visited in the order `order`
\* (a sequence of <<id, schedule>> pairs) of the HashMap's iteration.
RECURSIVE collect_epg_programs_from(_, _, _)
collect_epg_programs_from(order, programs, n) ==
    IF n > Len(order) \/ programs # programs THEN programs
    ELSE collect_epg_programs_from(
             order,
             EpgSchedule_collect_epg_programs(order[n][2], order[n][1], programs),
             n + 1)

collect_epg_programs(order) == collect_epg_programs_from(order, <<>>, 1)

send_update_epg_message(scheds, order) ==
    [services |-> collect_epg_services(scheds),
     programs |-> collect_epg_programs(order)]

\* load_schedules: the index of the cache file, or an error when the file is
\* missing or does not decode.
NoFile == [kind |-> "missing", index |-> <<>>]
CorruptFile == [kind |-> "corrupt", index |-> <<>>]
OkFile(index) == [kind |-> "ok", index |-> index]

load_schedules(file) == IF file.kind = "ok" THEN Some(file.index) ELSE None

----------------------------------------------------------------------------
(* Inputs *)

\* The instants the inputs are built around: the midnights of two
\* consecutive days.
M1 == Day
M2 == 2 * Day

ChA == [name |-> "A", channel_type |-> "GR", channel |-> "27",
        excluded_services |-> <<>>, disabled |-> FALSE]
ChB == [name |-> "B", channel_type |-> "BS", channel |-> "BS1",
        excluded_services |-> <<2>>, disabled |-> FALSE]

TsService(nid, tsid, sid, name) ==
    [nid |-> nid, tsid |-> tsid, sid |-> sid, service_type |-> 1, logo_id |-> 0,
     remote_control_key_id |-> 0, name |-> name]

Sv1 == EpgService_from(EpgChannel_from(ChA), TsService(1, 1, 1, "one"))
Sv2 == EpgService_from(EpgChannel_from(ChB), TsService(2, 1, 2, "two"))

\* The service of Sv1 as a later scan reports it: found on another channel,
\* with another name, type, logo and remote control key.
Sv1b ==
    EpgService_from(
        EpgChannel_from(ChB),
        [TsService(1, 1, 1, "uno") EXCEPT !.service_type = 2, !.logo_id = 1,
                                          !.remote_control_key_id = 1])

Event(id, start, duration) ==
    [event_id |-> id, start_time |-> start, duration |-> duration,
     scrambled |-> FALSE]

\* 23:00-23:30 (ends before M1), 23:30-00:30 (straddles M1),
\* 23:59:59-00:00:00 (ends at M1), 00:00-01:00 (starts at M1),
\* 23:30-00:30 of the next day (straddles M2).
Ev1 == Event(1, M1 - 3600, 1800)
Ev2 == Event(2, M1 - 1800, 3600)
Ev3 == Event(3, M1 - 1, 1)
Ev4 == Event(4, M1, 3600)
Ev5 == Event(5, M2 - 1800, 3600)
Ev6 == Event(6, M1 - 60, 120)

\* The event of Ev2 as a later version of its section carries it.
Ev2b == [Event(2, M1 - 900, 7200) EXCEPT !.scrambled = TRUE]

Line(nid, sid, table_id, section_number, segment_last, events) ==
    [kind |-> "json", original_network_id |-> nid, transport_stream_id |-> 1,
     service_id |-> sid, table_id |-> table_id, section_number |-> section_number,
     last_section_number |-> 248, segment_last_section_number |-> segment_last,
     version_number |-> 1, events |-> events]

Garbage == [kind |-> "garbage"]

\* An index a run of the day before M1 left in the cache at 22:00.
CachedIndex ==
    update_tables(
        prepare_schedules(<<>>, <<Sv1>>, M1 - 7200, M1 - 7200).schedules,
        <<Line(1, 1, 80, 0, 1, <<Ev1, Ev2>>), Line(1, 1, 81, 9, 9, <<Ev5, Ev6>>)>>
    ).schedules

----------------------------------------------------------------------------
(* The store harness: the index driven directly through prepare_schedules,  *)
(* update_tables and save_overnight_events, as the unit tests drive it.     *)

MaxOps == 3

StoreServiceLists ==
    {<<>>, <<Sv1>>, <<Sv2>>, <<Sv1, Sv2>>, <<Sv1, Sv1>>, <<Sv1b>>}

StoreTimestamps == {M1, M1 + 900, M2 + 10}

StoreLines ==
    {Line(1, 1, 80, 0, 1, <<Ev1, Ev2>>),
     Line(1, 1, 80, 1, 1, <<Ev3, Ev4>>),
     Line(1, 1, 80, 0, 0, <<Ev3, Ev4>>),
     Line(1, 1, 80, 1, 0, <<Ev2>>),
     [Line(1, 1, 80, 0, 1, <<Ev3>>) EXCEPT !.version_number = 0],
     Line(1, 1, 81, 9, 9, <<Ev5, Ev2b>>),
     Line(1, 1, 80, 255, 255, <<Ev2>>),
     Line(2, 2, 80, 0, 0, <<Ev2>>),
     Line(1, 1, 79, 0, 0, <<>>),
     Line(1, 1, 112, 0, 0, <<>>),
     Line(1, 1, 80, 256, 0, <<>>),
     Line(2, 1, 80, 0, 0, <<Ev1>>),
     Garbage}

StoreStreams ==
    {<<>>} \cup {<<l>> : l \in StoreLines}
           \cup {<<Line(2, 1, 80, 0, 0, <<Ev1>>), Line(1, 1, 80, 2, 2, <<Ev4>>)>>}

NoHist ==
    [op |-> "init", n |-> 0, pre |-> <<>>, services |-> <<>>, timestamp |-> 0,
     lines |-> <<>>, id |-> <<>>, midnight |-> 0, result |-> "ok",
     saved |-> <<>>, calls |-> <<>>, programs |-> <<>>, output |-> <<>>,
     event |-> <<>>, overnight |-> FALSE,
     triples |-> <<>>, keys |-> <<>>, parts |-> <<>>]

StoreInit ==
    /\ config = <<>>
    /\ channels = <<>>
    /\ cache_file \in {NoFile, OkFile(CachedIndex)}
    /\ schedules = IF load_schedules(cache_file) = None
                       THEN <<>> ELSE load_schedules(cache_file)[1]
    /\ max_elapsed = None
    /\ clock = M1 - 7200
    /\ timers = <<>>
    /\ pc = "store"
    /\ run_now = 0
    /\ todo = <<>>
    /\ cur = None
    /\ services = <<>>
    /\ result = "ok"
    /\ tuners = 0
    /\ published = <<>>
    /\ log = <<>>
    /\ runs = 0
    /\ ticks = 0
    /\ hist = NoHist

StorePrepare ==
    /\ pc = "store"
    /\ hist.n < MaxOps
    /\ \E servs \in StoreServiceLists, t \in StoreTimestamps :
          /\ t >= clock
          /\ LET r == prepare_schedules(schedules, servs, t, t)
             IN  /\ schedules' = r.schedules
                 /\ clock' = t
                 /\ hist' = [NoHist EXCEPT !.op = "prepare", !.n = hist.n + 1,
                                           !.pre = schedules, !.services = servs,
                                           !.timestamp = t, !.saved = r.saved]
    /\ UNCHANGED pc
    /\ UNCHANGED coordVars

StoreUpdateTables ==
    /\ pc = "store"
    /\ hist.n < MaxOps
    /\ \E lines \in StoreStreams :
          LET r == update_tables(schedules, lines)
          IN  /\ schedules' = r.schedules
              /\ pc' = IF r.result = "panic" THEN "crashed" ELSE "store"
              /\ hist' = [NoHist EXCEPT !.op = "update_tables", !.n = hist.n + 1,
                                        !.pre = schedules, !.lines = lines,
                                        !.result = r.result, !.calls = r.calls]
    /\ UNCHANGED clock
    /\ UNCHANGED coordVars

StoreSaveOvernight ==
    /\ pc = "store"
    /\ hist.n < MaxOps
    /\ \E id \in DOMAIN schedules, m \in {M1, M2} :
          /\ schedules' = [schedules EXCEPT ![id] = save_overnight_events(@, m)]
          /\ hist' = [NoHist EXCEPT !.op = "save", !.n = hist.n + 1,
                                    !.pre = schedules, !.id = id, !.midnight = m]
    /\ UNCHANGED <<pc, clock>>
    /\ UNCHANGED coordVars

StoreCollectPrograms ==
    /\ pc = "store"
    /\ hist.n < MaxOps
    /\ \E id \in DOMAIN schedules :
          hist' = [NoHist EXCEPT
                      !.op = "programs", !.n = hist.n + 1, !.pre = schedules,
                      !.id = id,
                      !.programs = EpgSchedule_collect_epg_programs(
                                       schedules[id], id, <<>>)]
    /\ UNCHANGED <<schedules, pc, clock>>
    /\ UNCHANGED coordVars

StoreNext ==
    \/ StorePrepare
    \/ StoreUpdateTables
    \/ StoreSaveOvernight
    \/ StoreCollectPrograms

StoreSpec == StoreInit /\ [][StoreNext]_vars

----------------------------------------------------------------------------
(* EpgSchedule::update on every section of the profile: every table_id of  *)
(* 0x50..0x6F with every section_number, applied to a schedule that holds   *)
(* two tables and the overnight events saved at M1.                         *)

IndexSections ==
    {Line(1, 1, table_id, section_number, last, <<Ev4>>) :
        table_id \in TableIdBase .. TableIdBase + NumTables - 1,
        section_number \in 0 .. U8Max,
        last \in {0, U8Max}}

IndexInit ==
    /\ config = <<>>
    /\ channels = <<>>
    /\ schedules = [id \in DOMAIN CachedIndex |->
                        save_overnight_events(CachedIndex[id], M1)]
    /\ max_elapsed = None
    /\ clock = M1 - 7200
    /\ timers = <<>>
    /\ pc = "index"
    /\ run_now = 0
    /\ todo = <<>>
    /\ cur = None
    /\ services = <<>>
    /\ result = "ok"
    /\ tuners = 0
    /\ cache_file = None
    /\ published = <<>>
    /\ log = <<>>
    /\ runs = 0
    /\ ticks = 0
    /\ \E line \in IndexSections : hist = [NoHist EXCEPT !.op = "section", !.lines = <<line>>]

IndexUpdate ==
    /\ pc = "index"
    /\ hist.op = "section"
    /\ LET section == parse_EitSection(hist.lines[1])[1]
           id == epg_schedule_id(section)
       IN  /\ schedules' = [schedules EXCEPT ![id] = EpgSchedule_update(@, section)]
           /\ hist' = [hist EXCEPT !.op = "update", !.pre = schedules, !.id = id]
    /\ UNCHANGED <<pc, clock>>
    /\ UNCHANGED coordVars

IndexSpec == IndexInit /\ [][IndexUpdate]_vars

----------------------------------------------------------------------------
(* EitEvent::is_overnight_event on events around a midnight, against that   *)
(* midnight and the midnights a day before and a day after.                 *)

OvernightSpan == 3

OvernightEvents ==
    {Event(0, M1 + offset, duration) :
        offset \in -OvernightSpan .. OvernightSpan,
        duration \in 0 .. 2 * OvernightSpan}

OvernightInit ==
    /\ config = <<>>
    /\ channels = <<>>
    /\ schedules = <<>>
    /\ max_elapsed = None
    /\ clock = M1 - 7200
    /\ timers = <<>>
    /\ pc = "overnight"
    /\ run_now = 0
    /\ todo = <<>>
    /\ cur = None
    /\ services = <<>>
    /\ result = "ok"
    /\ tuners = 0
    /\ cache_file = None
    /\ published = <<>>
    /\ log = <<>>
    /\ runs = 0
    /\ ticks = 0
    /\ \E event \in OvernightEvents, midnight \in {M1 - Day, M1, M2} :
          hist = [NoHist EXCEPT !.op = "event", !.event = event,
                                !.midnight = midnight]

OvernightTest ==
    /\ pc = "overnight"
    /\ hist.op = "event"
    /\ hist' = [hist EXCEPT !.op = "overnight",
                            !.overnight = is_overnight_event(hist.event, hist.midnight)]
    /\ UNCHANGED <<schedules, pc, clock>>
    /\ UNCHANGED coordVars

OvernightSpec == OvernightInit /\ [][OvernightTest]_vars

----------------------------------------------------------------------------
(* The Epg actor *)

MaxRuns == 2
MaxTicks == 1
TickLen == 3000

ChC == [name |-> "C", channel_type |-> "CS", channel |-> "CS2",
        excluded_services |-> <<>>, disabled |-> TRUE]

Configs == {<<ChA, ChB, ChC>>}


NotJson == [kind |-> "garbage", services |-> <<>>]

ScanOutputs(ch) ==
    IF ch.name = "A"
        THEN {NotJson, [kind |-> "json", services |-> <<TsService(1, 1, 1, "one")>>]}
        ELSE {NotJson, [kind |-> "json", services |-> <<TsService(2, 1, 2, "two")>>]}

CollectStreams ==
    {<<Line(1, 1, 80, 0, 1, <<Ev1, Ev2>>)>>,
     <<Line(1, 1, 80, 1, 0, <<Ev3, Ev4>>), Garbage, Line(1, 1, 80, 0, 0, <<>>)>>,
     <<Line(2, 2, 80, 0, 0, <<Ev2>>), Line(1, 1, 112, 0, 0, <<>>)>>}

CacheFiles == {NoFile, OkFile(CachedIndex)}

\* The actor starts on the day before M1: without a cache at 22:03:20, 22:25
\* or 23:30, with the cache of an earlier run at 23:30.
StartTimes(file) ==
    IF file = NoFile THEN {M1 - 7000, M1 - 5700, M1 - 1800} ELSE {M1 - 1800}

Timer(now, delay) == [due |-> now + delay, delay |-> delay]

RemoveAt(seq, i) == [k \in 1 .. Len(seq) - 1 |-> IF k < i THEN seq[k] ELSE seq[k + 1]]

StreamItem(nid, ch) == [nid |-> nid, ch |-> ch]

\* The time the tuner takes to deliver an output.
Delays == {0} \cup (IF ticks < MaxTicks THEN {TickLen} ELSE {})

Init ==
    /\ config \in Configs
    /\ channels = Epg_new_channels(config)
    /\ schedules = <<>>
    /\ max_elapsed = None
    /\ cache_file \in CacheFiles
    /\ clock \in StartTimes(cache_file)
    /\ timers = <<>>
    /\ pc = "new"
    /\ run_now = 0
    /\ todo = <<>>
    /\ cur = None
    /\ services = <<>>
    /\ result = "ok"
    /\ tuners = 0
    /\ published = <<>>
    /\ log = <<>>
    /\ runs = 0
    /\ ticks = 0
    /\ hist = NoHist

\* Mutant: a snapshot is published whether or not the cache loaded.
Started_publishing_always ==
    /\ pc = "new"
    /\ LET loaded == load_schedules(cache_file)
       IN  /\ schedules' = IF loaded # None THEN loaded[1] ELSE schedules
           /\ \E order \in IterationOrders(schedules') :
                  published' = Append(published,
                                      send_update_epg_message(schedules', order))
    /\ timers' = Append(timers, Timer(clock, 0))
    /\ pc' = "idle"
    /\ UNCHANGED <<config, channels, max_elapsed, clock, run_now, todo, cur,
                   services, result, tuners, cache_file, log, runs, ticks, hist>>

\* Actor::started
Started ==
    /\ pc = "new"
    /\ LET loaded == load_schedules(cache_file)
       IN  /\ schedules' = IF loaded # None THEN loaded[1] ELSE schedules
           /\ IF loaded # None
                  THEN \E order \in IterationOrders(loaded[1]) :
                          published' = Append(published,
                                              send_update_epg_message(loaded[1], order))
                  ELSE published' = published
    /\ timers' = Append(timers, Timer(clock, 0))
    /\ pc' = "idle"
    /\ UNCHANGED <<config, channels, max_elapsed, clock, run_now, todo, cur,
                   services, result, tuners, cache_file, log, runs, ticks, hist>>

\* Mutant: the postponed pass is due at midnight, without the margin.
RunPostpone_without_margin ==
    /\ pc = "idle"
    /\ runs < MaxRuns
    /\ \E i \in 1 .. Len(timers) :
          LET now == Max(clock, timers[i].due)
              remaining == remaining_until_midnight(now)
          IN  /\ remaining < estimate_time(max_elapsed)
              /\ clock' = now
              /\ run_now' = now
              /\ timers' = Append(RemoveAt(timers, i), Timer(now, remaining))
    /\ runs' = runs + 1
    /\ log' = <<LogEntry("postponed", "", <<>>)>>
    /\ hist' = NoHist
    /\ UNCHANGED <<config, channels, schedules, max_elapsed, pc, todo, cur,
                   services, result, tuners, cache_file, published, ticks>>

\* Mutant: the postponed pass is due 10 seconds before midnight.
RunPostpone_before_midnight ==
    /\ pc = "idle"
    /\ runs < MaxRuns
    /\ \E i \in 1 .. Len(timers) :
          LET now == Max(clock, timers[i].due)
              remaining == remaining_until_midnight(now)
          IN  /\ remaining < estimate_time(max_elapsed)
              /\ clock' = now
              /\ run_now' = now
              /\ timers' = Append(RemoveAt(timers, i),
                                  Timer(now, Max(remaining - PostponeMargin, 0)))
    /\ runs' = runs + 1
    /\ log' = <<LogEntry("postponed", "", <<>>)>>
    /\ hist' = NoHist
    /\ UNCHANGED <<config, channels, schedules, max_elapsed, pc, todo, cur,
                   services, result, tuners, cache_file, published, ticks>>

\* Epg::run, invoked by a timer, when the daily guard postpones the pass.
RunPostpone ==
    /\ pc = "idle"
    /\ runs < MaxRuns
    /\ \E i \in 1 .. Len(timers) :
          LET now == Max(clock, timers[i].due)
              remaining == remaining_until_midnight(now)
          IN  /\ remaining < estimate_time(max_elapsed)
              /\ clock' = now
              /\ run_now' = now
              /\ timers' = Append(RemoveAt(timers, i),
                                  Timer(now, remaining + PostponeMargin))
    /\ runs' = runs + 1
    /\ log' = <<LogEntry("postponed", "", <<>>)>>
    /\ hist' = NoHist
    /\ UNCHANGED <<config, channels, schedules, max_elapsed, pc, todo, cur,
                   services, result, tuners, cache_file, published, ticks>>

\* Epg::run, invoked by a timer, when the pass starts: the future chain is
\* spawned and scan_services builds its stream of channels.
RunProceed ==
    /\ pc = "idle"
    /\ runs < MaxRuns
    /\ \E i \in 1 .. Len(timers) :
          LET now == Max(clock, timers[i].due)
              remaining == remaining_until_midnight(now)
              chs == collect_channels_for_scanning_services(channels)
          IN  /\ ~(remaining < estimate_time(max_elapsed))
              /\ clock' = now
              /\ run_now' = now
              /\ timers' = RemoveAt(timers, i)
              /\ todo' = [n \in 1 .. Len(chs) |-> StreamItem(0, chs[n])]
    /\ runs' = runs + 1
    /\ pc' = "scan"
    /\ cur' = None
    /\ services' = <<>>
    /\ result' = "ok"
    /\ log' = <<LogEntry("run", "", <<>>)>>
    /\ hist' = NoHist
    /\ UNCHANGED <<config, channels, schedules, max_elapsed, tuners, cache_file,
                   published, ticks>>

\* scan_services: the next channel of the stream, and its open_tuner request.
ScanRequest ==
    /\ pc = "scan"
    /\ todo # <<>>
    /\ cur' = Some(Head(todo))
    /\ todo' = Tail(todo)
    /\ pc' = "scan_wait"
    /\ log' = Append(log, LogEntry("scan_open", Head(todo).ch.name, <<>>))
    /\ UNCHANGED <<config, channels, schedules, max_elapsed, clock, timers, run_now,
                   services, result, tuners, cache_file, published, runs, ticks, hist>>

\* Mutant: a channel whose tuner cannot be opened is skipped.
ScanTunerFailed_skipping_channel ==
    /\ pc = "scan_wait"
    /\ pc' = "scan"
    /\ cur' = None
    /\ log' = Append(log, LogEntry("scan_failed", cur[1].ch.name, <<>>))
    /\ UNCHANGED <<config, channels, schedules, max_elapsed, clock, timers, run_now,
                   todo, services, result, tuners, cache_file, published, runs,
                   ticks, hist>>

\* open_tuner fails.
ScanTunerFailed ==
    /\ pc = "scan_wait"
    /\ result' = "err"
    /\ pc' = "then"
    /\ cur' = None
    /\ log' = Append(log, LogEntry("scan_failed", cur[1].ch.name, <<>>))
    /\ UNCHANGED <<config, channels, schedules, max_elapsed, clock, timers, run_now,
                   todo, services, tuners, cache_file, published, runs, ticks, hist>>

\* open_tuner succeeds, and make_command or output.pipe fails: the tuner
\* output is dropped.
ScanPipeFailed ==
    /\ pc = "scan_wait"
    /\ result' = "err"
    /\ pc' = "then"
    /\ cur' = None
    /\ log' = log \o <<LogEntry("scan_tuner", cur[1].ch.name, <<>>),
                       LogEntry("scan_failed", cur[1].ch.name, <<>>)>>
    /\ UNCHANGED <<config, channels, schedules, max_elapsed, clock, timers, run_now,
                   todo, services, tuners, cache_file, published, runs, ticks, hist>>

\* open_tuner succeeds and the scan helper is spawned on its output.
ScanPiped ==
    /\ pc = "scan_wait"
    /\ \E d \in Delays :
          /\ clock' = clock + d
          /\ ticks' = IF d > 0 THEN ticks + 1 ELSE ticks
    /\ tuners' = tuners + 1
    /\ pc' = "scan_read"
    /\ log' = Append(log, LogEntry("scan_tuner", cur[1].ch.name, <<>>))
    /\ UNCHANGED <<config, channels, schedules, max_elapsed, timers, run_now, todo,
                   cur, services, result, cache_file, published, runs, hist>>

\* Mutant: output that is not JSON fails the pass.
ScanRead_failing_without_json ==
    /\ pc = "scan_read"
    /\ \E output \in ScanOutputs(cur[1].ch) :
          LET parsed == parse_TsServices(output)
          IN  /\ services' = IF parsed # None
                                 THEN services \o scan_epg_services(cur[1].ch, parsed[1])
                                 ELSE services
              /\ hist' = [NoHist EXCEPT !.op = "scan_read", !.output = output,
                                        !.services = services]
              /\ pc' = IF parsed # None THEN "scan" ELSE "then"
              /\ result' = IF parsed # None THEN result ELSE "err"
    /\ tuners' = tuners - 1
    /\ cur' = None
    /\ log' = Append(log, LogEntry("scan_read", cur[1].ch.name, <<>>))
    /\ UNCHANGED <<config, channels, schedules, max_elapsed, clock, timers, run_now,
                   todo, cache_file, published, runs, ticks>>

\* Mutant: the tuner output is kept after the helper's output is read.
ScanRead_keeping_tuner ==
    /\ pc = "scan_read"
    /\ \E output \in ScanOutputs(cur[1].ch) :
          LET parsed == parse_TsServices(output)
          IN  /\ services' = IF parsed # None
                                 THEN services \o scan_epg_services(cur[1].ch, parsed[1])
                                 ELSE services
              /\ hist' = [NoHist EXCEPT !.op = "scan_read", !.output = output,
                                        !.services = services]
    /\ pc' = "scan"
    /\ cur' = None
    /\ log' = Append(log, LogEntry("scan_read", cur[1].ch.name, <<>>))
    /\ UNCHANGED <<config, channels, schedules, max_elapsed, clock, timers, run_now,
                   todo, result, tuners, cache_file, published, runs, ticks>>

\* The helper's output is read to its end and folded into the services.
ScanRead ==
    /\ pc = "scan_read"
    /\ \E output \in ScanOutputs(cur[1].ch) :
          LET parsed == parse_TsServices(output)
          IN  /\ services' = IF parsed # None
                                 THEN services \o scan_epg_services(cur[1].ch, parsed[1])
                                 ELSE services
              /\ hist' = [NoHist EXCEPT !.op = "scan_read", !.output = output,
                                        !.services = services]
    /\ tuners' = tuners - 1
    /\ pc' = "scan"
    /\ cur' = None
    /\ log' = Append(log, LogEntry("scan_read", cur[1].ch.name, <<>>))
    /\ UNCHANGED <<config, channels, schedules, max_elapsed, clock, timers, run_now,
                   todo, result, cache_file, published, runs, ticks>>

\* The scan stream is exhausted: update_schedules prepares the schedules and
\* builds its stream of networks.
UpdateSchedules ==
    /\ pc = "scan"
    /\ todo = <<>>
    /\ LET r == prepare_schedules(schedules, services, clock, clock)
           map == collect_channels_for_collecting_programs(services)
       IN  /\ schedules' = r.schedules
           /\ \E order \in IterationOrders(map) :
                 todo' = [k \in 1 .. Len(order) |->
                             StreamItem(order[k][1], order[k][2])]
           /\ log' = log \o <<LogEntry("scan_done", "", <<>>),
                              LogEntry("prepare", "", <<>>)>>
                         \o LogIds("save_overnight", r.saved)
                         \o <<LogEntry("prepared", "", <<>>)>>
           /\ hist' = [NoHist EXCEPT !.op = "prepare", !.pre = schedules,
                                     !.services = services, !.timestamp = clock,
                                     !.saved = r.saved]
    /\ pc' = "collect"
    /\ UNCHANGED <<config, channels, max_elapsed, clock, timers, run_now, cur,
                   services, result, tuners, cache_file, published, runs, ticks>>

\* update_schedules: the next network of the stream, and its open_tuner request.
CollectRequest ==
    /\ pc = "collect"
    /\ todo # <<>>
    /\ cur' = Some(Head(todo))
    /\ todo' = Tail(todo)
    /\ pc' = "collect_wait"
    /\ log' = Append(log, LogEntry("collect_open", Head(todo).ch.name, <<>>))
    /\ UNCHANGED <<config, channels, schedules, max_elapsed, clock, timers, run_now,
                   services, result, tuners, cache_file, published, runs, ticks, hist>>

CollectTunerFailed ==
    /\ pc = "collect_wait"
    /\ result' = "err"
    /\ pc' = "then"
    /\ cur' = None
    /\ log' = Append(log, LogEntry("collect_failed", cur[1].ch.name, <<>>))
    /\ UNCHANGED <<config, channels, schedules, max_elapsed, clock, timers, run_now,
                   todo, services, tuners, cache_file, published, runs, ticks, hist>>

CollectPipeFailed ==
    /\ pc = "collect_wait"
    /\ result' = "err"
    /\ pc' = "then"
    /\ cur' = None
    /\ log' = log \o <<LogEntry("collect_tuner", cur[1].ch.name, <<>>),
                       LogEntry("collect_failed", cur[1].ch.name, <<>>)>>
    /\ UNCHANGED <<config, channels, schedules, max_elapsed, clock, timers, run_now,
                   todo, services, tuners, cache_file, published, runs, ticks, hist>>

CollectPiped ==
    /\ pc = "collect_wait"
    /\ \E d \in Delays :
          /\ clock' = clock + d
          /\ ticks' = IF d > 0 THEN ticks + 1 ELSE ticks
    /\ tuners' = tuners + 1
    /\ pc' = "collect_read"
    /\ log' = Append(log, LogEntry("collect_tuner", cur[1].ch.name, <<>>))
    /\ UNCHANGED <<config, channels, schedules, max_elapsed, timers, run_now, todo,
                   cur, services, result, cache_file, published, runs, hist>>

\* update_tables on the collect helper's output.  A panic unwinds the
\* actor's thread: the actor, its timers and its tuner output are gone.
CollectRead ==
    /\ pc = "collect_read"
    /\ \E lines \in CollectStreams :
          LET r == update_tables(schedules, lines)
          IN  /\ schedules' = r.schedules
              /\ result' = IF r.result = "ok" THEN result ELSE "err"
              /\ pc' = IF r.result = "ok" THEN "collect"
                       ELSE IF r.result = "err" THEN "then" ELSE "crashed"
              /\ tuners' = IF r.result = "panic" THEN 0 ELSE tuners - 1
              /\ log' = log \o r.calls
                            \o <<LogEntry(IF r.result = "ok" THEN "collect_read"
                                          ELSE IF r.result = "err" THEN "parse_failed"
                                          ELSE "panic",
                                          cur[1].ch.name, <<>>)>>
              /\ hist' = [hist EXCEPT !.lines = lines]
    /\ cur' = None
    /\ UNCHANGED <<config, channels, max_elapsed, clock, timers, run_now, todo,
                   services, cache_file, published, runs, ticks>>

\* The collect stream is exhausted and save_epg_data succeeds.
SaveOk ==
    /\ pc = "collect"
    /\ todo = <<>>
    /\ cache_file' = OkFile(schedules)
    /\ pc' = "publish"
    /\ log' = log \o <<LogEntry("collect_done", "", <<>>),
                       LogEntry("cache_saved", "", <<>>)>>
    /\ UNCHANGED <<config, channels, schedules, max_elapsed, clock, timers, run_now,
                   todo, cur, services, result, tuners, published, runs, ticks, hist>>

\* Mutant: the chain goes on to the publish after a failed save.
SaveFailed_then_publish ==
    /\ pc = "collect"
    /\ todo = <<>>
    /\ cache_file' \in {cache_file, CorruptFile}
    /\ result' = "err"
    /\ pc' = "publish"
    /\ log' = log \o <<LogEntry("collect_done", "", <<>>),
                       LogEntry("cache_save_failed", "", <<>>)>>
    /\ UNCHANGED <<config, channels, schedules, max_elapsed, clock, timers, run_now,
                   todo, cur, services, tuners, published, runs, ticks, hist>>

\* The collect stream is exhausted and save_epg_data fails: File::create
\* fails and leaves the file as it was, or the write fails after File::create
\* has truncated it.
SaveFailed ==
    /\ pc = "collect"
    /\ todo = <<>>
    /\ cache_file' \in {cache_file, CorruptFile}
    /\ result' = "err"
    /\ pc' = "then"
    /\ log' = log \o <<LogEntry("collect_done", "", <<>>),
                       LogEntry("cache_save_failed", "", <<>>)>>
    /\ UNCHANGED <<config, channels, schedules, max_elapsed, clock, timers, run_now,
                   todo, cur, services, tuners, published, runs, ticks, hist>>

\* send_update_epg_message after the save.
Publish ==
    /\ pc = "publish"
    /\ \E order \in IterationOrders(schedules) :
          published' = Append(published, send_update_epg_message(schedules, order))
    /\ pc' = "then"
    /\ log' = Append(log, LogEntry("publish", "", <<>>))
    /\ UNCHANGED <<config, channels, schedules, max_elapsed, clock, timers, run_now,
                   todo, cur, services, result, tuners, cache_file, runs, ticks, hist>>

\* The `then` of the chain, on Ok.
ThenOk ==
    /\ pc = "then"
    /\ result = "ok"
    /\ max_elapsed' = update_max_elapsed(max_elapsed, clock - run_now)
    /\ timers' = Append(timers, Timer(clock, SuccessDelay))
    /\ pc' = "idle"
    /\ log' = Append(log, LogEntry("done", "", <<>>))
    /\ UNCHANGED <<config, channels, schedules, clock, run_now, todo, cur, services,
                   result, tuners, cache_file, published, runs, ticks, hist>>

\* Mutant: max_elapsed is updated after a failed pass too.
ThenErr_updating_max_elapsed ==
    /\ pc = "then"
    /\ result = "err"
    /\ max_elapsed' = update_max_elapsed(max_elapsed, clock - run_now)
    /\ timers' = Append(timers, Timer(clock, FailureDelay))
    /\ pc' = "idle"
    /\ log' = Append(log, LogEntry("failed", "", <<>>))
    /\ UNCHANGED <<config, channels, schedules, clock, run_now, todo,
                   cur, services, result, tuners, cache_file, published, runs,
                   ticks, hist>>

\* The `then` of the chain, on Err.
ThenErr ==
    /\ pc = "then"
    /\ result = "err"
    /\ timers' = Append(timers, Timer(clock, FailureDelay))
    /\ pc' = "idle"
    /\ log' = Append(log, LogEntry("failed", "", <<>>))
    /\ UNCHANGED <<config, channels, schedules, max_elapsed, clock, run_now, todo,
                   cur, services, result, tuners, cache_file, published, runs,
                   ticks, hist>>

Next ==
    \/ Started
    \/ RunPostpone
    \/ RunProceed
    \/ ScanRequest
    \/ ScanTunerFailed
    \/ ScanPipeFailed
    \/ ScanPiped
    \/ ScanRead
    \/ UpdateSchedules
    \/ CollectRequest
    \/ CollectTunerFailed
    \/ CollectPipeFailed
    \/ CollectPiped
    \/ CollectRead
    \/ SaveOk
    \/ SaveFailed
    \/ Publish
    \/ ThenOk
    \/ ThenErr

Spec == Init /\ [][Next]_vars

----------------------------------------------------------------------------
(* The second half of a pass, update_schedules and what follows it, on the  *)
(* services a scan of three channels may have found: services of one        *)
(* network found on several channels, in either order.                      *)

ChD == [name |-> "D", channel_type |-> "BS", channel |-> "BS3",
        excluded_services |-> <<2, 7>>, disabled |-> FALSE]

Sv3 == EpgService_from(EpgChannel_from(ChB), TsService(1, 1, 3, "three"))
Sv4 == EpgService_from(EpgChannel_from(ChD), TsService(1, 2, 4, "four"))

ScannedServiceLists ==
    {<<>>, <<Sv1>>, <<Sv1, Sv2>>, <<Sv1, Sv3>>, <<Sv3, Sv1>>, <<Sv3, Sv4, Sv2>>,
     <<Sv1, Sv3, Sv4>>, <<Sv4, Sv2, Sv3>>}

CollectInit ==
    /\ config = <<ChA, ChB, ChD>>
    /\ channels = Epg_new_channels(config)
    /\ schedules = <<>>
    /\ max_elapsed = None
    /\ clock = M1 - 7000
    /\ timers = <<>>
    /\ pc = "scan"
    /\ run_now = clock
    /\ todo = <<>>
    /\ cur = None
    /\ services \in ScannedServiceLists
    /\ result = "ok"
    /\ tuners = 0
    /\ cache_file = NoFile
    /\ published = <<>>
    /\ log = <<LogEntry("run", "", <<>>)>>
    /\ runs = 1
    /\ ticks = 0
    /\ hist = NoHist

CollectNext ==
    \/ UpdateSchedules
    \/ CollectRequest
    \/ CollectTunerFailed
    \/ CollectPipeFailed
    \/ CollectPiped
    \/ CollectRead
    \/ SaveOk
    \/ SaveFailed
    \/ Publish
    \/ ThenOk
    \/ ThenErr

CollectSpec == CollectInit /\ [][CollectNext]_vars

----------------------------------------------------------------------------
(* The daily guard alone: Epg::run invoked by a timer at times up to a day  *)
(* before M1, after passes that took up to a day, and invoked again by the  *)
(* timer it sets when it postpones.  The timers of the actor fire: the      *)
(* invocation that is due happens.                                          *)

GuardMaxElapsed == {None, Some(0), Some(TickLen), Some(Day - 41), Some(Day - 40),
                    Some(Day - 39), Some(Day)}

GuardOffsets == {1, 10, 29, 30, 31, 1800, TickLen + 29, TickLen + 30, TickLen + 31,
                 3599, 3600, 3601, Day - 11, Day - 10, Day - 9, Day}

GuardInit ==
    /\ config \in Configs
    /\ channels = Epg_new_channels(config)
    /\ schedules = <<>>
    /\ max_elapsed \in GuardMaxElapsed
    /\ cache_file = NoFile
    /\ \E offset \in GuardOffsets : clock = M1 - offset
    /\ timers = <<Timer(clock, 0)>>
    /\ pc = "idle"
    /\ run_now = 0
    /\ todo = <<>>
    /\ cur = None
    /\ services = <<>>
    /\ result = "ok"
    /\ tuners = 0
    /\ published = <<>>
    /\ log = <<>>
    /\ runs = 0
    /\ ticks = 0
    /\ hist = NoHist

GuardNext ==
    \/ RunPostpone
    \/ RunProceed

GuardSpec == GuardInit /\ [][GuardNext]_vars /\ WF_vars(GuardNext)

----------------------------------------------------------------------------
(* EpgScheduleId on pairs of triples of 16-bit values: the key of each      *)
(* triple is built and read back through nid(), tsid() and sid().           *)

KeyValues == {0, 1, 256, 32768, U16Max}

KeyTriples == {<<nid, tsid, sid>> : nid \in KeyValues, tsid \in KeyValues,
                                    sid \in KeyValues}

KeyInit ==
    /\ config = <<>>
    /\ channels = <<>>
    /\ schedules = <<>>
    /\ max_elapsed = None
    /\ clock = M1 - 7200
    /\ timers = <<>>
    /\ pc = "key"
    /\ run_now = 0
    /\ todo = <<>>
    /\ cur = None
    /\ services = <<>>
    /\ result = "ok"
    /\ tuners = 0
    /\ cache_file = NoFile
    /\ published = <<>>
    /\ log = <<>>
    /\ runs = 0
    /\ ticks = 0
    /\ \E a \in KeyTriples, b \in KeyTriples :
          hist = [NoHist EXCEPT !.op = "triples", !.triples = <<a, b>>]

KeyPack ==
    /\ pc = "key"
    /\ hist.op = "triples"
    /\ LET keys == [n \in 1 .. 2 |->
                       EpgScheduleId_from(hist.triples[n][1], hist.triples[n][2],
                                          hist.triples[n][3])]
       IN  hist' = [hist EXCEPT
                       !.op = "keys",
                       !.keys = keys,
                       !.parts = [n \in 1 .. 2 |->
                                     <<EpgScheduleId_nid(keys[n]),
                                       EpgScheduleId_tsid(keys[n]),
                                       EpgScheduleId_sid(keys[n])>>]]
    /\ UNCHANGED <<schedules, pc, clock>>
    /\ UNCHANGED coordVars

KeySpec == KeyInit /\ [][KeyPack]_vars

----------------------------------------------------------------------------
(* Properties of the store *)

Last(seq) == seq[Len(seq)]

ObservedIds(servs) == {EpgService_schedule_id(servs[n]) : n \in 1 .. Len(servs)}

FirstService(servs, id) ==
    servs[CHOOSE n \in 1 .. Len(servs) :
             /\ EpgService_schedule_id(servs[n]) = id
             /\ \A m \in 1 .. n - 1 : EpgService_schedule_id(servs[m]) # id]

Count(seq, id) == Cardinality({n \in 1 .. Len(seq) : seq[n] = id})

NoTables(sched) == \A t \in 0 .. NumTables - 1 : sched.tables[t] = None

\* C5: after prepare_schedules(S, t) the ids of the index are exactly the
\* ids of the services of S, whatever the index held before.
C5_ReapCompleteness ==
    hist.op = "prepare" => DOMAIN schedules = ObservedIds(hist.services)

\* C5 witness: a preparation that removed one schedule and created another.
C5_Witness ==
    /\ hist.op = "prepare"
    /\ (DOMAIN hist.pre) \ (DOMAIN schedules) # {}
    /\ (DOMAIN schedules) \ (DOMAIN hist.pre) # {}

\* A schedule as EpgSchedule::new leaves it.
IsFresh(sched) == NoTables(sched) /\ sched.overnight_events = <<>>

SavedThenStamped(id) ==
    /\ Count(hist.saved, id) = 1
    /\ schedules[id] = [save_overnight_events(hist.pre[id], midnight_of(hist.timestamp))
                           EXCEPT !.updated_at = hist.timestamp]

\* C6 as stated: per observed id, a schedule that exists with updated_at
\* before today's midnight gets save_overnight_events(midnight) and then
\* updated_at = now; in every other case the id gets a fresh schedule.
C6_AsStated ==
    hist.op = "prepare" =>
        \A id \in ObservedIds(hist.services) :
            IF id \in DOMAIN hist.pre
                  /\ hist.pre[id].updated_at < midnight_of(hist.timestamp)
                THEN SavedThenStamped(id)
                ELSE IsFresh(schedules[id])

\* C6 amended: as above for a schedule last updated before today's midnight;
\* a schedule that exists and was updated today is kept as it is, with only
\* updated_at set to now and no overnight save; a fresh schedule, carrying
\* the first observed service of the id, is created only when the index
\* holds none for the id.
C6_Amended ==
    hist.op = "prepare" =>
        \A id \in ObservedIds(hist.services) :
            IF id \notin DOMAIN hist.pre
                THEN /\ IsFresh(schedules[id])
                     /\ schedules[id].service = FirstService(hist.services, id)
                     /\ Count(hist.saved, id) = 0
            ELSE IF hist.pre[id].updated_at < midnight_of(hist.timestamp)
                THEN SavedThenStamped(id)
            ELSE /\ schedules[id] = [hist.pre[id] EXCEPT !.updated_at = hist.timestamp]
                 /\ Count(hist.saved, id) = 0

\* C6 witness: a preparation that met a schedule already updated today that
\* holds sections, and kept them.
C6_Witness ==
    /\ hist.op = "prepare"
    /\ \E id \in ObservedIds(hist.services) \cap DOMAIN hist.pre :
          /\ hist.pre[id].updated_at >= midnight_of(hist.timestamp)
          /\ ~NoTables(hist.pre[id])
          /\ ~NoTables(schedules[id])

\* C22: a schedule that prepare_schedules creates for a key the index did
\* not hold has no overnight events and 32 empty table slots; after a
\* preparation of an empty index no schedule has overnight events; a key
\* that was reaped and is observed again gets such a schedule too.
C22_FreshSchedule ==
    hist.op = "prepare" =>
        /\ \A id \in (DOMAIN schedules) \ (DOMAIN hist.pre) :
              /\ schedules[id].overnight_events = <<>>
              /\ \A t \in 0 .. NumTables - 1 : schedules[id].tables[t] = None
        /\ DOMAIN hist.pre = {} =>
              \A id \in DOMAIN schedules : schedules[id].overnight_events = <<>>

\* C22 witness: the index loaded from the cache held sections for a key, an
\* earlier preparation reaped the key, and this one observed it again.
C22_Witness ==
    /\ hist.op = "prepare"
    /\ cache_file.kind = "ok"
    /\ \E id \in (DOMAIN schedules) \ (DOMAIN hist.pre) :
          /\ id \in DOMAIN cache_file.index
          /\ ~NoTables(cache_file.index[id])
          /\ DOMAIN hist.pre # {}
          /\ IsFresh(schedules[id])

\* The places of the stored events of a schedule: table, segment, slot and
\* rank in the section.
StoredPlaces(sched) ==
    UNION {UNION {UNION {{<<t, s, j, n>> :
                            n \in 1 .. Len(sched.tables[t][1].segments[s].sections[j][1].events)} :
                         j \in {k \in 0 .. NumSections - 1 :
                                   sched.tables[t][1].segments[s].sections[k] # None}} :
                  s \in 0 .. NumSegments - 1} :
           t \in {u \in 0 .. NumTables - 1 : sched.tables[u] # None}}

EventAt(sched, place) ==
    sched.tables[place[1]][1].segments[place[2]].sections[place[3]][1].events[place[4]]

Before(p, q) ==
    \E k \in 1 .. 4 : p[k] < q[k] /\ \A m \in 1 .. k - 1 : p[m] = q[m]

StraddlingPlaces(sched, midnight) ==
    {p \in StoredPlaces(sched) :
        LET e == EventAt(sched, p)
        IN  e.start_time < midnight /\ midnight < e.start_time + e.duration}

\* C9: after save_overnight_events(M) the sidecar lists, in walk order and
\* once per stored occurrence, exactly the stored events with
\* start_time < M < start_time + duration; what it held before is gone, and
\* the rest of the schedule is as it was.
C9_OvernightExact ==
    hist.op = "save" =>
        LET post == schedules[hist.id]
            pre == hist.pre[hist.id]
            places == StraddlingPlaces(pre, hist.midnight)
        IN  /\ post.tables = pre.tables
            /\ post.service = pre.service
            /\ post.updated_at = pre.updated_at
            /\ Len(post.overnight_events) = Cardinality(places)
            /\ \A p \in places :
                  post.overnight_events[1 + Cardinality({q \in places : Before(q, p)})]
                      = EventAt(pre, p)

\* C9 witness: a save that found straddling events in two tables and
\* replaced a sidecar that was not empty.
C9_Witness ==
    /\ hist.op = "save"
    /\ hist.pre[hist.id].overnight_events # <<>>
    /\ Len(schedules[hist.id].overnight_events) >= 2
    /\ schedules[hist.id].overnight_events # hist.pre[hist.id].overnight_events
    /\ \E p, q \in StraddlingPlaces(hist.pre[hist.id], hist.midnight) : p[1] # q[1]

\* C10 as stated: after EpgSegment::update(S), with
\* L = S.segment_last_section_number mod 8, every slot j of the segment with
\* L < j < 8 is empty.
C10_Truncation ==
    (hist.op = "update_tables" /\ Len(hist.calls) = 1) =>
        LET section == parse_EitSection(hist.lines[1])[1]
            segment == schedules[hist.calls[1].id]
                           .tables[section.table_id - 80][1]
                           .segments[section.section_number \div 8]
        IN  \A j \in 0 .. 7 :
               (section.segment_last_section_number % 8) < j => segment.sections[j] = None

\* The parsed sections of a stream, and the ServiceKey a section names.
SectionOf(line) == parse_EitSection(line)[1]

Parses(line) == parse_EitSection(line) # None

SectionKey(section) ==
    <<0, section.original_network_id, section.transport_stream_id,
      section.service_id>>

OutOfProfile(section) == section.table_id < 80 \/ section.table_id >= 112

\* C11 as stated: a section with table_id < 0x50 or >= 0x70 that is routed
\* to a schedule is rejected: update_tables does not terminate abnormally
\* and leaves the schedule as it was.
C11_OutOfProfileRejected ==
    (/\ hist.op = "update_tables"
     /\ Len(hist.lines) = 1
     /\ Parses(hist.lines[1])
     /\ OutOfProfile(SectionOf(hist.lines[1]))
     /\ SectionKey(SectionOf(hist.lines[1])) \in DOMAIN hist.pre)
        => /\ hist.result = "ok"
           /\ pc # "crashed"
           /\ schedules = hist.pre

\* C12: update_tables applies a section only to the schedule of the
\* section's (original_network_id, transport_stream_id, service_id); a
\* section of a key that is not in the index is dropped without error; the
\* keys of the index are the same before and after.
C12_SectionRouting ==
    hist.op = "update_tables" =>
        LET lines == hist.lines
            keys == {SectionKey(SectionOf(lines[k])) :
                        k \in {j \in 1 .. Len(lines) : Parses(lines[j])}}
        IN  /\ DOMAIN schedules = DOMAIN hist.pre
            /\ \A id \in (DOMAIN hist.pre) \ keys : schedules[id] = hist.pre[id]
            /\ \A n \in 1 .. Len(hist.calls) : hist.calls[n].id \in keys
            /\ (/\ \A k \in 1 .. Len(lines) : Parses(lines[k])
                /\ keys \cap DOMAIN hist.pre = {})
                  => hist.result = "ok" /\ schedules = hist.pre
            /\ \A k \in 1 .. Len(lines) :
                  (/\ \A j \in 1 .. Len(lines) : Parses(lines[j])
                   /\ ~OutOfProfile(SectionOf(lines[k]))
                   /\ SectionKey(SectionOf(lines[k])) \in DOMAIN hist.pre
                   /\ \A j \in (1 .. Len(lines)) \ {k} :
                         SectionKey(SectionOf(lines[j])) \notin DOMAIN hist.pre)
                      => /\ hist.result = "ok"
                         /\ schedules =
                               [hist.pre EXCEPT ![SectionKey(SectionOf(lines[k]))] =
                                   EpgSchedule_update(@, SectionOf(lines[k]))]

\* C12 witness: a stream whose first section names a key that is not in the
\* index and whose second section was applied to the one schedule it names,
\* with another schedule in the index.
C12_Witness ==
    /\ hist.op = "update_tables"
    /\ Len(hist.lines) = 2
    /\ SectionKey(SectionOf(hist.lines[1])) \notin DOMAIN hist.pre
    /\ Len(hist.calls) = 1
    /\ Cardinality(DOMAIN schedules) = 2
    /\ schedules # hist.pre

\* The slots of the segment a section belongs to, in a schedule.
SlotsOf(sched, section) ==
    IF sched.tables[section.table_id - 80] = None
        THEN [j \in 0 .. 7 |-> <<>>]
        ELSE sched.tables[section.table_id - 80][1]
                 .segments[section.section_number \div 8].sections

\* C24: a section S that is applied puts (S.version_number, S.events) in
\* slot i = S.section_number mod 8 of its segment whatever version the slot
\* held, and every slot j <= S.segment_last_section_number mod 8 other than
\* i is as it was.
C24_SlotReplacement ==
    (/\ hist.op = "update_tables"
     /\ Len(hist.lines) = 1
     /\ Parses(hist.lines[1])
     /\ ~OutOfProfile(SectionOf(hist.lines[1]))
     /\ SectionKey(SectionOf(hist.lines[1])) \in DOMAIN hist.pre)
        => LET S == SectionOf(hist.lines[1])
               id == SectionKey(S)
               i == S.section_number % 8
               L == S.segment_last_section_number % 8
               before == SlotsOf(hist.pre[id], S)
               after == SlotsOf(schedules[id], S)
           IN  /\ after[i] = <<[version |-> S.version_number, events |-> S.events]>>
               /\ \A j \in (0 .. L) \ {i} : after[j] = before[j]

\* C24 witness: a section of version 0 replaced the section of version 1 its
\* slot held, next to another slot of the segment that holds a section.
C24_Witness ==
    /\ hist.op = "update_tables"
    /\ Len(hist.lines) = 1
    /\ Parses(hist.lines[1])
    /\ ~OutOfProfile(SectionOf(hist.lines[1]))
    /\ SectionKey(SectionOf(hist.lines[1])) \in DOMAIN hist.pre
    /\ LET S == SectionOf(hist.lines[1])
           id == SectionKey(S)
           i == S.section_number % 8
           L == S.segment_last_section_number % 8
           before == SlotsOf(hist.pre[id], S)
           after == SlotsOf(schedules[id], S)
       IN  /\ before[i] # <<>>
           /\ before[i][1].version > S.version_number
           /\ after[i][1].version = S.version_number
           /\ \E j \in (0 .. L) \ {i} : after[j] # <<>>

\* C27: a preparation that observes a key whose schedule was updated at or
\* after today's midnight makes no overnight save for it and changes nothing
\* of the schedule but updated_at, which becomes the timestamp; a key that is
\* repeated in the service list is saved at most once.
C27_SameDayPreparation ==
    hist.op = "prepare" =>
        /\ \A id \in ObservedIds(hist.services) \cap DOMAIN hist.pre :
              hist.pre[id].updated_at >= midnight_of(hist.timestamp) =>
                  /\ \A n \in 1 .. Len(hist.saved) : hist.saved[n] # id
                  /\ schedules[id].tables = hist.pre[id].tables
                  /\ schedules[id].overnight_events = hist.pre[id].overnight_events
                  /\ schedules[id].service = hist.pre[id].service
                  /\ schedules[id].updated_at = hist.timestamp
        /\ \A id \in ObservedIds(hist.services) : Count(hist.saved, id) <= 1

\* C27 witness: a later pass of the day found the overnight events the first
\* pass of the day saved and kept them, moving only updated_at.
C27_Witness ==
    /\ hist.op = "prepare"
    /\ \E id \in ObservedIds(hist.services) \cap DOMAIN hist.pre :
          /\ hist.pre[id].updated_at >= midnight_of(hist.timestamp)
          /\ hist.pre[id].updated_at < hist.timestamp
          /\ hist.pre[id].overnight_events # <<>>
          /\ schedules[id].overnight_events = hist.pre[id].overnight_events
          /\ ~NoTables(schedules[id])

\* The ServiceModel the update message carries for a schedule.
ServiceModelOf(scheds, id) ==
    CHOOSE model \in collect_epg_services(scheds) :
        /\ model.network_id = scheds[id].service.nid
        /\ model.service_id = scheds[id].service.sid

\* C30: a preparation that observes a key the index holds leaves the service
\* record of its schedule as it was, whatever attributes the observation
\* carries, so the ServiceModel published for it is the same as before.
C30_ServiceFixed ==
    hist.op = "prepare" =>
        \A id \in ObservedIds(hist.services) \cap DOMAIN hist.pre :
            /\ schedules[id].service = hist.pre[id].service
            /\ ServiceModelOf(schedules, id) = ServiceModelOf(hist.pre, id)

\* C30 witness: the key was observed with another name, type, logo, remote
\* control key and channel than the schedule holds.
C30_Witness ==
    /\ hist.op = "prepare"
    /\ \E n \in 1 .. Len(hist.services) :
          LET id == EpgService_schedule_id(hist.services[n])
          IN  /\ id \in DOMAIN hist.pre
              /\ hist.services[n].name # hist.pre[id].service.name
              /\ hist.services[n].service_type # hist.pre[id].service.service_type
              /\ hist.services[n].logo_id # hist.pre[id].service.logo_id
              /\ hist.services[n].remote_control_key_id
                    # hist.pre[id].service.remote_control_key_id
              /\ hist.services[n].channel # hist.pre[id].service.channel
              /\ ServiceModelOf(schedules, id).name = hist.pre[id].service.name

\* The places collect_epg_programs visits in a schedule: the overnight events
\* (ranked before table 0) and the stored events.
VisitedPlaces(sched) ==
    {<<-1, 0, 0, n>> : n \in 1 .. Len(sched.overnight_events)}
        \cup StoredPlaces(sched)

VisitedEvent(sched, place) ==
    IF place[1] = -1 THEN sched.overnight_events[place[4]]
    ELSE EventAt(sched, place)

\* C13: the programs of one schedule are those of the event ids met in its
\* overnight events and its stored sections, and each takes start_at,
\* duration and is_free from the last event of its id in the order overnight
\* events, tables 0..31, segments 0..31, slots 0..7, stored order.
C13_FlatteningOrder ==
    hist.op = "programs" =>
        LET sched == schedules[hist.id]
            places == VisitedPlaces(sched)
            key(e) == ProgramModel_make_id(e.event_id, hist.id[4], hist.id[2])
        IN  /\ DOMAIN hist.programs = {key(VisitedEvent(sched, p)) : p \in places}
            /\ \A p \in places :
                  LET e == VisitedEvent(sched, p)
                  IN  (\A q \in places :
                          VisitedEvent(sched, q).event_id = e.event_id => ~Before(p, q))
                         => /\ hist.programs[key(e)].start_at = e.start_time
                            /\ hist.programs[key(e)].duration = e.duration
                            /\ hist.programs[key(e)].is_free = ~e.scrambled

\* C13 witness: a schedule with an overnight event whose id a stored section
\* carries with other fields, and an overnight event that no stored section
\* carries; both are among the programs.
C13_Witness ==
    /\ hist.op = "programs"
    /\ LET sched == schedules[hist.id]
       IN  /\ \E n \in 1 .. Len(sched.overnight_events) :
                 \E p \in StoredPlaces(sched) :
                    /\ EventAt(sched, p).event_id = sched.overnight_events[n].event_id
                    /\ EventAt(sched, p) # sched.overnight_events[n]
           /\ \E n \in 1 .. Len(sched.overnight_events) :
                 \A p \in StoredPlaces(sched) :
                    EventAt(sched, p).event_id # sched.overnight_events[n].event_id
           /\ Cardinality(DOMAIN hist.programs) >= 3

\* C20: for a section with table_id in 0x50..0x6F and section_number in
\* 0..255, table_index = table_id - 0x50 is in 0..31, segment_index =
\* section_number / 8 is in 0..31, section_index = section_number mod 8 is in
\* 0..7 and section_number = 8 * segment_index + section_index; after
\* EpgSchedule::update the section is in that slot of that segment of that
\* table, and every other table and segment is as it was.
C20_IndexMath ==
    hist.op \in {"section", "update"} =>
        LET section == SectionOf(hist.lines[1])
            ti == table_index(section)
            si == segment_index(section)
            ji == section_index(section)
        IN  /\ ti = section.table_id - 80 /\ ti \in 0 .. 31
            /\ si = section.section_number \div 8 /\ si \in 0 .. 31
            /\ ji = section.section_number % 8 /\ ji \in 0 .. 7
            /\ section.section_number = 8 * si + ji
            /\ hist.op = "update" =>
                  LET post == schedules[hist.id]
                      pre == hist.pre[hist.id]
                      t == section.table_id - 80
                      g == section.section_number \div 8
                      j == section.section_number % 8
                  IN  /\ post.tables[t] # None
                      /\ post.tables[t][1].segments[g].sections[j] =
                            <<[version |-> section.version_number,
                               events |-> section.events]>>
                      /\ \A u \in (0 .. 31) \ {t} : post.tables[u] = pre.tables[u]
                      /\ \A h \in (0 .. 31) \ {g} :
                            post.tables[t][1].segments[h] =
                                IF pre.tables[t] = None
                                    THEN [sections |-> [k \in 0 .. 7 |-> <<>>]]
                                    ELSE pre.tables[t][1].segments[h]

\* C20 witness: the section of table_id 0x6F and section_number 255 is
\* stored in slot 7 of segment 31 of table 31.
C20_Witness ==
    /\ hist.op = "update"
    /\ SectionOf(hist.lines[1]).table_id = 111
    /\ SectionOf(hist.lines[1]).section_number = 255
    /\ schedules[hist.id].tables[31] # None
    /\ schedules[hist.id].tables[31][1].segments[31].sections[7] # <<>>
    /\ hist.pre[hist.id].tables[31] = <<>>

\* C25: EpgSchedule::update with a section of the profile changes only the
\* segment tables[table_index].segments[segment_index]: the table is there
\* afterwards, with 32 segments, the other 31 of them empty if the table was
\* not there before and as they were otherwise; every other table slot,
\* overnight_events, updated_at and the service are as they were.
C25_UpdateFrame ==
    hist.op = "update" =>
        LET section == SectionOf(hist.lines[1])
            post == schedules[hist.id]
            pre == hist.pre[hist.id]
            ti == table_index(section)
            si == segment_index(section)
        IN  /\ post.tables[ti] # None
            /\ DOMAIN post.tables[ti][1].segments = 0 .. 31
            /\ \A t \in (0 .. 31) \ {ti} : post.tables[t] = pre.tables[t]
            /\ \A g \in (0 .. 31) \ {si} :
                  IF pre.tables[ti] = None
                      THEN \A j \in 0 .. 7 :
                              post.tables[ti][1].segments[g].sections[j] = None
                      ELSE post.tables[ti][1].segments[g] = pre.tables[ti][1].segments[g]
            /\ post.overnight_events = pre.overnight_events
            /\ post.updated_at = pre.updated_at
            /\ post.service = pre.service
            /\ \A id \in (DOMAIN schedules) \ {hist.id} : schedules[id] = hist.pre[id]

\* C25 witness: a section for a table the schedule lacked was stored in a
\* schedule that holds other tables and overnight events.
C25_Witness ==
    /\ hist.op = "update"
    /\ LET section == SectionOf(hist.lines[1])
           post == schedules[hist.id]
           pre == hist.pre[hist.id]
           ti == table_index(section)
           si == segment_index(section)
       IN  /\ pre.overnight_events # <<>>
           /\ post.tables[ti] # None
           /\ pre.tables[ti] = None
           /\ post.tables[ti][1].segments[si] # EpgSegment_default
           /\ \E t \in (0 .. 31) \ {ti} : post.tables[t] # None

\* C21: an event is overnight relative to a midnight M exactly when
\* start_time < M and start_time + duration > M: not when it ends at M, not
\* when it starts at M, and not for a midnight outside its airing interval.
C21_OvernightPredicate ==
    hist.op = "overnight" =>
        LET start == hist.event.start_time
            end == hist.event.start_time + hist.event.duration
            M == hist.midnight
        IN  /\ hist.overnight <=> (start < M /\ end > M)
            /\ end = M => ~hist.overnight
            /\ start = M => ~hist.overnight
            /\ (M < start \/ M > end) => ~hist.overnight

\* C21 witness: the event of 23:59:59 that lasts one second is not overnight
\* relative to the midnight it ends at.
C21_Witness ==
    /\ hist.op = "overnight"
    /\ hist.midnight = M1
    /\ hist.event.start_time = M1 - 1
    /\ hist.event.duration = 1
    /\ ~hist.overnight

----------------------------------------------------------------------------
(* Properties of the actor *)

\* The positions of the chain of one pass.
PassStates == {"scan", "scan_wait", "scan_read", "collect", "collect_wait",
               "collect_read", "publish", "then"}

Steps(names) == {n \in 1 .. Len(log) : log[n].step \in names}

ScanSteps == {"scan_open", "scan_tuner", "scan_read", "scan_failed"}

CollectSteps == {"collect_open", "collect_tuner", "write", "collect_read",
                 "collect_failed", "parse_failed", "panic"}

FailureSteps == {"scan_failed", "collect_failed", "parse_failed",
                 "cache_save_failed", "panic"}

\* C1: when Epg::run is invoked with less than estimate_time() left until
\* the next midnight, the only effect is one timer for remaining + 10
\* seconds: no tuner is opened and the index, the cache file, the published
\* messages and max_elapsed stay as they are; with estimate_time() or more
\* left, the pass goes to service discovery.
C1_DailyGuard ==
    [][(pc = "idle" /\ runs' = runs + 1) =>
          LET now == clock'
              remaining == (((now \div 86400) + 1) * 86400) - now
          IN  IF remaining < estimate_time(max_elapsed)
                  THEN /\ pc' = "idle"
                       /\ Len(timers') = 1
                       /\ timers'[1] = [due |-> now + remaining + 10,
                                        delay |-> remaining + 10]
                       /\ UNCHANGED <<schedules, cache_file, published,
                                      max_elapsed, tuners>>
                       /\ Steps(ScanSteps \cup CollectSteps)' = {}
                  ELSE /\ pc' = "scan"
                       /\ timers' = <<>>
                       /\ Len(todo') = Len(collect_channels_for_scanning_services(channels))
      ]_vars

\* C1 witness: a pass invoked at 23:30 after a pass that took 50 minutes is
\* postponed to 10 seconds past midnight.
C1_Witness ==
    /\ pc = "idle"
    /\ log = <<LogEntry("postponed", "", <<>>)>>
    /\ max_elapsed = Some(TickLen)
    /\ Len(timers) = 1
    /\ timers[1].due = midnight_of(clock) + Day + 10
    /\ tuners = 0

\* C2 as stated: a pass that completed every step has scheduled the next
\* pass 15 minutes later, a pass that failed at a step has scheduled it 5
\* minutes later, and no pass has ended without a next pass scheduled.
C2_Backoff ==
    (runs > 0 /\ pc \notin PassStates /\ log[1].step = "run") =>
        /\ Len(timers) >= 1
        /\ Steps(FailureSteps) = {} =>
              /\ timers[Len(timers)] = [due |-> clock + 900, delay |-> 900]
              /\ Steps({"cache_saved"}) # {}
              /\ Steps({"publish"}) # {}
        /\ Steps(FailureSteps) # {} =>
              timers[Len(timers)] = [due |-> clock + 300, delay |-> 300]

\* C3 as stated: once the actor has started, either one pass is in progress
\* and no timer is pending, or no pass is in progress and exactly one timer
\* is pending.
C3_OnePassOrOneTimer ==
    pc # "new" =>
        \/ pc \in PassStates /\ timers = <<>>
        \/ pc \notin PassStates /\ Len(timers) = 1

EnabledChannelNames ==
    {channels[n].name : n \in 1 .. Len(channels)}

CollectedChannelNames ==
    LET map == collect_channels_for_collecting_programs(services)
    IN  {map[nid].name : nid \in DOMAIN map}

\* C4: within one pass, discovery has read every enabled channel before the
\* schedules are prepared and before any tuner is opened for collection; the
\* cache is saved only after every network has been collected; the publish
\* comes only after a successful cache save; after a failed step nothing of
\* the pass follows but the scheduling of the next pass.
C4_StepOrdering ==
    /\ \A m \in Steps({"prepare"} \cup CollectSteps) :
          /\ \A n \in Steps(ScanSteps) : n < m
          /\ \A name \in EnabledChannelNames :
                \E n \in Steps({"scan_read"}) : n < m /\ log[n].name = name
    /\ \A m \in Steps({"cache_saved", "cache_save_failed"}) :
          /\ \A n \in Steps(CollectSteps) : n < m
          /\ \A name \in CollectedChannelNames :
                \E n \in Steps({"collect_read"}) : n < m /\ log[n].name = name
    /\ \A m \in Steps({"publish"}) :
          /\ \E n \in Steps({"cache_saved"}) : n < m
          /\ Steps({"cache_save_failed"}) = {}
    /\ \A n \in Steps(FailureSteps) :
          \/ n = Len(log)
          \/ n = Len(log) - 1 /\ log[Len(log)].step = "failed"

\* C4 witness: a pass that went through discovery on two channels,
\* collection on two networks with a section written, the save and the
\* publish.
C4_Witness ==
    /\ pc = "idle"
    /\ log # <<>>
    /\ log[Len(log)].step = "done"
    /\ Cardinality(Steps({"scan_read"})) = 2
    /\ Cardinality(Steps({"collect_read"})) = 2
    /\ Steps({"write"}) # {}
    /\ Steps({"publish"}) # {}

SaveSteps(id) == {n \in Steps({"save_overnight"}) : log[n].id = id}

WriteSteps(id) == {n \in Steps({"write"}) : log[n].id = id}

SavesWithinPreparation ==
    \A n \in Steps({"save_overnight"}) :
        /\ log[n].id \in ObservedIds(hist.services)
        /\ \E a \in Steps({"prepare"}) : a < n
        /\ \E b \in Steps({"prepared"}) : n < b
        /\ \A w \in Steps({"write"}) : n < w

\* C7 as stated: in every pass save_overnight_events is called exactly once
\* for each observed id, in schedule preparation, before the pass writes any
\* table slot.
C7_AsStated ==
    hist.op = "prepare" =>
        /\ \A id \in ObservedIds(hist.services) : Cardinality(SaveSteps(id)) = 1
        /\ SavesWithinPreparation

\* C7 amended: in every pass save_overnight_events is called at most once
\* for each observed id, in schedule preparation, before the pass writes any
\* table slot: once when the index held a schedule for the id that was last
\* updated before today's midnight, and not at all when the schedule is new
\* or was already updated today.
C7_Amended ==
    hist.op = "prepare" =>
        /\ \A id \in ObservedIds(hist.services) :
              Cardinality(SaveSteps(id)) =
                  IF id \in DOMAIN hist.pre
                        /\ hist.pre[id].updated_at < midnight_of(hist.timestamp)
                      THEN 1 ELSE 0
        /\ SavesWithinPreparation

\* C7 witness: a pass that saved the overnight events of one observed id,
\* made no save for another, and went on to write a section.
C7_Witness ==
    /\ hist.op = "prepare"
    /\ \E a, b \in ObservedIds(hist.services) :
          Cardinality(SaveSteps(a)) = 1 /\ Cardinality(SaveSteps(b)) = 0
    /\ Steps({"write"}) # {}

\* C8: within one pass, every save_overnight_events call on a schedule comes
\* before every section write to that schedule.
C8_SaveBeforeWrites ==
    \A n \in Steps({"save_overnight"}) : \A w \in Steps({"write"}) :
        log[n].id = log[w].id => n < w

\* C8 witness: a pass that saved the overnight events of a schedule and then
\* wrote two sections to it.
C8_Witness ==
    \E id \in DOMAIN schedules :
        /\ SaveSteps(id) # {}
        /\ Cardinality(WriteSteps(id)) >= 2

\* C14: when the cache save fails after collection, nothing is published in
\* that pass, max_elapsed stays as it was, the index keeps what the pass
\* collected, and the next pass is scheduled 5 minutes later.
C14_CacheSaveFailure ==
    [][Steps({"cache_save_failed"})' # {} =>
          /\ published' = published
          /\ max_elapsed' = max_elapsed
          /\ schedules' = schedules
          /\ Steps({"publish"})' = {}
          /\ \/ pc' = "then" /\ result' = "err" /\ timers' = <<>>
             \/ /\ pc' = "idle"
                /\ timers' = <<[due |-> clock' + 300, delay |-> 300]>>
      ]_vars

\* C14 witness: a pass that wrote a section, took 50 minutes, failed to save
\* the cache and was rescheduled, with the written schedule in the index.
C14_Witness ==
    /\ pc = "idle"
    /\ Steps({"cache_save_failed"}) # {}
    /\ Steps({"write"}) # {}
    /\ clock - run_now = TickLen
    /\ \E id \in DOMAIN schedules : ~NoTables(schedules[id])
    /\ cache_file.kind # "ok"

\* The first line of a stream that does not parse, when the lines before it
\* are applied without abnormal termination.
MalformedAt(scheds, lines, k) ==
    /\ ~Parses(lines[k])
    /\ \A j \in 1 .. k - 1 : Parses(lines[j])
    /\ update_tables(scheds, SubSeq(lines, 1, k - 1)).result = "ok"

\* C15: a line of the collect helper's output that does not parse ends the
\* pass as failed: the lines after it and the networks left are not
\* processed, nothing is saved or published, the next pass is scheduled 5
\* minutes later; the sections applied before it and the prepared schedules
\* stay in the index.
C15_MalformedLineAborts ==
    [][/\ (pc = "collect_read" /\ pc' # pc) =>
             \A k \in 1 .. Len(hist'.lines) :
                 MalformedAt(schedules, hist'.lines, k) =>
                     /\ pc' = "then"
                     /\ result' = "err"
                     /\ schedules' = update_tables(
                                         schedules, SubSeq(hist'.lines, 1, k - 1)).schedules
                     /\ UNCHANGED <<todo, cache_file, published, timers>>
       /\ (pc = "then" /\ Steps({"parse_failed"}) # {}) =>
             /\ pc' = "idle"
             /\ timers' = <<[due |-> clock' + 300, delay |-> 300]>>
             /\ Steps({"cache_saved", "cache_save_failed", "publish"})' = {}
             /\ UNCHANGED <<todo, schedules, cache_file, published, max_elapsed>>
      ]_vars

\* C15 witness: a pass rescheduled after a malformed line that followed an
\* applied section, with a network left unprocessed.
C15_Witness ==
    /\ pc = "idle"
    /\ \E k \in 2 .. Len(hist.lines) : MalformedAt(hist.pre, hist.lines, k)
    /\ Steps({"parse_failed"}) # {}
    /\ Steps({"write"}) # {}
    /\ todo # <<>>
    /\ \E id \in DOMAIN schedules : ~NoTables(schedules[id])

\* C16: scan output that is not JSON is no error: the channel adds no
\* service, the channels left are still scanned, and the schedules are
\* prepared from the services of the other channels, so that the schedules
\* of services found on no channel are removed.
C16_NonJsonScan ==
    [][/\ (pc = "scan_read" /\ pc' # pc /\ hist'.output.kind # "json") =>
             /\ pc' = "scan"
             /\ UNCHANGED <<services, result, todo, schedules, timers>>
       /\ (pc = "scan" /\ pc' = "collect") =>
             DOMAIN schedules' = ObservedIds(services)
      ]_vars

\* C16 witness: channel A gave no JSON and channel B one service; the pass
\* prepared the schedules and the schedule of the service of A is gone.
C16_Witness ==
    /\ hist.op = "prepare"
    /\ EpgService_schedule_id(Sv1) \in DOMAIN hist.pre
    /\ DOMAIN schedules = {EpgService_schedule_id(Sv2)}
    /\ \E n \in Steps({"scan_read"}) : log[n].name = "A"
    /\ Steps({"scan_failed"}) = {}

\* C17: at startup a cache that loads becomes the index and one snapshot of
\* it is published before any pass is invoked; a cache that does not load
\* leaves the index empty and nothing published; in both cases exactly one
\* timer of zero delay is set for the first pass.
C17_Startup ==
    [][/\ pc = "new" =>
             /\ pc' = "idle"
             /\ runs' = 0
             /\ timers' = <<[due |-> clock, delay |-> 0]>>
             /\ IF cache_file.kind = "ok"
                   THEN /\ schedules' = cache_file.index
                        /\ Len(published') = 1
                        /\ published'[1].services = collect_epg_services(cache_file.index)
                        /\ \E order \in IterationOrders(cache_file.index) :
                              published'[1].programs = collect_epg_programs(order)
                   ELSE /\ schedules' = <<>>
                        /\ published' = <<>>
       /\ (runs = 0 /\ runs' = 1) =>
             /\ Len(timers) = 1
             /\ clock' = clock
      ]_vars

\* C17 witness: the actor has started from a cache that loaded, the snapshot
\* with its programs is published and no pass has been invoked yet.
C17_Witness ==
    /\ pc = "idle"
    /\ runs = 0
    /\ cache_file.kind = "ok"
    /\ schedules = cache_file.index
    /\ Len(published) = 1
    /\ published[1].programs # <<>>
    /\ Len(timers) = 1

\* C18: the actor holds at most one tuner output, and none while it waits
\* for a tuner or is between two channels or networks.
C18_OneTuner ==
    /\ tuners \in {0, 1}
    /\ tuners = 1 => pc \in {"scan_read", "collect_read"}
    /\ pc \in {"scan_wait", "collect_wait"} => tuners = 0

\* C18 witness: the tuner of the second network is held after two channels
\* were scanned and the first network was collected.
C18_Witness ==
    /\ pc = "collect_read"
    /\ tuners = 1
    /\ Cardinality(Steps({"scan_read"})) = 2
    /\ Cardinality(Steps({"collect_read"})) = 1

DisabledChannelNames ==
    {config[n].name : n \in {k \in 1 .. Len(config) : config[k].disabled}}

\* C19: every tuner request of discovery and of collection names a channel
\* that the configuration does not disable, and a pass that got through
\* discovery has scanned every channel that is not disabled.
C19_DisabledChannels ==
    /\ \A n \in Steps({"scan_open", "scan_tuner", "collect_open", "collect_tuner"}) :
          log[n].name \notin DisabledChannelNames
    /\ Steps({"scan_done"}) # {} =>
          \A k \in 1 .. Len(config) :
              ~config[k].disabled =>
                  \E n \in Steps({"scan_read"}) : log[n].name = config[k].name

\* C19 witness: with a disabled channel in the configuration, a pass has
\* scanned the other two channels and requested a tuner for collection.
C19_Witness ==
    /\ DisabledChannelNames # {}
    /\ Steps({"scan_done"}) # {}
    /\ Cardinality(Steps({"scan_open"})) = 2
    /\ Steps({"collect_open"}) # {}

\* C23: max_elapsed is None until a pass succeeds; it changes only in the
\* step that ends a successful pass, and only if it is None or the elapsed
\* time of the pass is greater than it, and then it becomes that elapsed
\* time; it never decreases and never returns to None; estimate_time() is
\* max_elapsed + 30 seconds, and 1 hour while max_elapsed is None.
C23_MaxElapsed ==
    /\ max_elapsed = None
    /\ [][/\ max_elapsed' # max_elapsed =>
                /\ pc = "then" /\ result = "ok" /\ pc' = "idle"
                /\ max_elapsed = None \/ clock - run_now > max_elapsed[1]
                /\ max_elapsed' = <<clock - run_now>>
          /\ (pc = "then" /\ result = "ok" /\ pc' = "idle") =>
                /\ max_elapsed' # None
                /\ max_elapsed'[1] >= clock - run_now
          /\ max_elapsed # None =>
                /\ max_elapsed' # None
                /\ max_elapsed'[1] >= max_elapsed[1]
          /\ (max_elapsed = None /\ Steps({"done"})' = {}) => max_elapsed' = None
          /\ estimate_time(max_elapsed') =
                IF max_elapsed' = None THEN 3600 ELSE max_elapsed'[1] + 30
         ]_vars

\* C23 witness: a pass that succeeded in less time than an earlier one, with
\* max_elapsed still the time of the earlier one.
C23_Witness ==
    /\ pc = "idle"
    /\ runs = 2
    /\ Steps({"done"}) # {}
    /\ max_elapsed = <<TickLen>>
    /\ clock - run_now < TickLen

\* C29: no step of service discovery changes the index, the cache file or
\* what is published; when discovery fails the pass goes no further: the
\* index, the cache file, the published messages and max_elapsed stay as
\* they are, no schedule is prepared, no overnight events are saved, no
\* network is collected, and the one timer set is for 5 minutes later.
C29_DiscoveryFailure ==
    [][/\ (/\ pc \in {"idle", "scan", "scan_wait", "scan_read"}
           /\ pc' \in {"scan", "scan_wait", "scan_read", "then"})
             => UNCHANGED <<schedules, cache_file, published, max_elapsed>>
       /\ Steps({"scan_failed"})' # {} =>
             /\ UNCHANGED <<schedules, cache_file, published, max_elapsed>>
             /\ Steps({"prepare", "save_overnight", "prepared", "collect_open",
                       "collect_tuner", "write", "cache_saved", "publish",
                       "done"})' = {}
             /\ \/ pc' = "then" /\ result' = "err" /\ timers' = <<>>
                \/ /\ pc' = "idle"
                   /\ timers' = <<[due |-> clock' + 300, delay |-> 300]>>
      ]_vars

\* C29 witness: a pass rescheduled after discovery failed on the second
\* channel, the first one scanned, with the index as loaded from the cache.
C29_Witness ==
    /\ pc = "idle"
    /\ Steps({"scan_failed"}) # {}
    /\ Steps({"scan_read"}) # {}
    /\ Steps({"failed"}) # {}
    /\ cache_file.kind = "ok"
    /\ schedules = cache_file.index
    /\ DOMAIN schedules # {}
    /\ timers = <<[due |-> clock + 300, delay |-> 300]>>

\* The networks of a list of services, the first service of a network and
\* the service ids excluded on the channels of the services of a network.
Nids(servs) == {servs[n].nid : n \in 1 .. Len(servs)}

FirstOfNid(servs, nid) ==
    servs[CHOOSE n \in 1 .. Len(servs) :
             /\ servs[n].nid = nid
             /\ \A m \in 1 .. n - 1 : servs[m].nid # nid]

ExcludedOfNid(servs, nid) ==
    UNION {{servs[n].channel.excluded_services[k] :
               k \in 1 .. Len(servs[n].channel.excluded_services)} :
           n \in {m \in 1 .. Len(servs) : servs[m].nid = nid}}

\* C26: update_schedules builds a stream with one entry per distinct nid of
\* the observed services; every tuner request of the collection takes the
\* next entry, whose nid is requested once, whose channel is the channel of
\* the first observed service of the nid and whose excluded services are, as
\* a set, those of the channels of all observed services of the nid; a
\* collection that reaches its end has opened one tuner per distinct nid.
C26_NetworkGrouping ==
    [][/\ (pc = "scan" /\ pc' = "collect") =>
             /\ {todo'[k].nid : k \in 1 .. Len(todo')} = Nids(services)
             /\ Len(todo') = Cardinality(Nids(services))
       /\ (pc = "collect" /\ pc' = "collect_wait") =>
             LET item == cur'[1]
                 first == FirstOfNid(services, item.nid)
             IN  /\ item.nid \in Nids(services)
                 /\ \A k \in 1 .. Len(todo') : todo'[k].nid # item.nid
                 /\ item.ch.name = first.channel.name
                 /\ item.ch.channel_type = first.channel.channel_type
                 /\ item.ch.channel = first.channel.channel
                 /\ {item.ch.excluded_services[k] :
                        k \in 1 .. Len(item.ch.excluded_services)}
                       = ExcludedOfNid(services, item.nid)
                 /\ Cardinality(Steps({"collect_open"})') + Len(todo')
                       = Cardinality(Nids(services))
       /\ Steps({"collect_done"})' # {} =>
             /\ Cardinality(Steps({"collect_open"})') = Cardinality(Nids(services))
             /\ Cardinality(Steps({"collect_tuner"})') = Cardinality(Nids(services))
      ]_vars

\* C26 witness: three services of one network found on two channels and a
\* service of another network; the collection opened two tuners and ended.
C26_Witness ==
    /\ Len(services) = 3
    /\ Cardinality(Nids(services)) = 2
    /\ \E n, m \in 1 .. Len(services) :
          /\ services[n].nid = services[m].nid
          /\ services[n].channel # services[m].channel
    /\ Steps({"collect_done"}) # {}
    /\ Cardinality(Steps({"collect_open"})) = 2

\* The last invocation of Epg::run was postponed by the daily guard.
Postponed == pc = "idle" /\ log = <<LogEntry("postponed", "", <<>>)>>

\* C28: with estimate_time() at most 23h59m50s, the invocation that follows
\* a postponed one happens 10 seconds after the next midnight and goes to
\* service discovery: two invocations in a row are not postponed, and a pass
\* is started after every postponement.
C28_NoRepeatedPostponement ==
    /\ [][(Postponed /\ estimate_time(max_elapsed) <= 86390) =>
              /\ clock' = midnight_of(clock) + Day + 10
              /\ run_now' = clock'
              /\ pc' = "scan"
              /\ ~Postponed'
              /\ log' = <<LogEntry("run", "", <<>>)>>
         ]_vars
    /\ (Postponed /\ estimate_time(max_elapsed) <= 86390) ~> (pc = "scan")

\* C28 witness: with estimate_time() of 23h59m50s exactly, the pass that was
\* postponed starts 10 seconds after midnight.
C28_Witness ==
    /\ pc = "scan"
    /\ runs = 2
    /\ clock = M1 + 10
    /\ run_now = clock
    /\ estimate_time(max_elapsed) = 86390

\* C31: the key built from a triple of 16-bit values gives the triple back
\* through nid(), tsid() and sid(); it is below 2^48 (its most significant
\* 16-bit limb is 0 and the others are 16-bit values); the keys of two
\* triples are equal exactly when the triples are equal in all three
\* components.
C31_KeyPacking ==
    hist.op = "keys" =>
        /\ \A n \in 1 .. 2 :
              /\ hist.parts[n] = hist.triples[n]
              /\ hist.keys[n][1] = 0
              /\ \A i \in 2 .. 4 : hist.keys[n][i] \in 0 .. 65535
        /\ (hist.keys[1] = hist.keys[2]) <=>
              (/\ hist.triples[1][1] = hist.triples[2][1]
               /\ hist.triples[1][2] = hist.triples[2][2]
               /\ hist.triples[1][3] = hist.triples[2][3])

\* C31 witness: the triples (0xFFFF, 0x8000, 1) and (0xFFFF, 1, 0x8000), which
\* hold the same values in another order, have different keys, and the first
\* is read back from its key.
C31_Witness ==
    /\ hist.op = "keys"
    /\ hist.triples = <<<<65535, 32768, 1>>, <<65535, 1, 32768>>>>
    /\ hist.keys[1] # hist.keys[2]
    /\ hist.parts[1] = <<65535, 32768, 1>>

============================================================================
